---- MODULE Spec2Model ----
(***************************************************************************)
(* Real-time relay subsystem of the AI gateway hub: the WebSocket hub and  *)
(* its per-client pumps (handlers/websocket.go), the prompt handler with   *)
(* its stream goroutine, and the provider registry with its Redis-backed   *)
(* status cache (services/provider_registry.go).                           *)
(***************************************************************************)
EXTENDS Integers, Sequences, FiniteSets, TLC

(***************************************************************************)
(* Bounds of the model.                                                    *)
(***************************************************************************)
\* capacity of a client's send channel (make(chan []byte, 256) in the source)
SendCap == 1
\* number of requests the hub loop serves in one behaviour
MaxReqs == 5
\* number of ai_prompt frames read in one behaviour
MaxPrompts == 1
\* number of chunks a subprocess writes to standard output for one prompt
MaxChunks == 1
\* number of calls of the registry's API in one behaviour
MaxCalls == 2
\* minutes of wall-clock time in one behaviour
MaxTime == 5
\* number of ticks backgroundStatusUpdater serves in one behaviour
MaxSweeps == 1
\* number of List calls in one behaviour
MaxLists == 1
\* frames other than ai_prompt read by the read pumps
MaxFrames == 2

\* cacheStatus: r.redisClient.Set(..., 5*time.Minute)
CacheTTL == 5
\* backgroundStatusUpdater: time.NewTicker(2 * time.Minute)
SweepInterval == 2

\* client identities (*Client pointers)
Conns == {"c1", "c2"}
\* payloads handed to the broadcast channel
BroadcastMsgs == {"b1", "b2"}

VARIABLES
    clients,     \* Hub.clients: number of map entries held for each *Client key
    send,        \* Client.send: content of each client's buffered channel
    closes,      \* number of close(client.send) calls executed on each channel
    crashed,     \* "no", or the run-time panic that ended the process
    hubpc,       \* position of Hub.Run: "select" or "range" (inside the broadcast loop)
    bmsg,        \* message being broadcast while hubpc = "range"
    todo,        \* map keys the broadcast range has still to visit
    hubSeq,      \* number of requests received by the hub loop so far
    hubLast      \* the request the hub loop received last

hubVars == <<clients, send, closes, crashed, hubpc, bmsg, todo, hubSeq, hubLast>>

VARIABLES
    hs,          \* WebSocketHandler per client: "none" or "started"
    rpc,         \* readPump per client: "off", "read", "unreg", "done"
    wpc,         \* writePump per client: "off", "run", "done"
    connClosed,  \* c.conn.Close() has been called on the client's transport
    chatID,      \* Client.chatID per client (0 until a frame sets it)
    provider,    \* Client.provider per client ("" until a prompt sets it)
    frames,      \* frames the read pumps have read: how many, and the last one
    nprompts,    \* number of ai_prompt frames handled so far
    prompts      \* per prompt: its client, provider id, the position of its
                 \* handler / stream goroutine, and what it has enqueued

progVars == <<hs, rpc, wpc, connClosed, chatID, provider, frames, nprompts, prompts>>

VARIABLES
    providers,   \* ProviderRegistry.providers: id -> provider object
    redisOn,     \* ProviderRegistry.redisClient != nil
    redis,       \* the Redis keys provider_status:<id>: JSON value and expiry time
    now,         \* wall clock, in minutes
    lastSweep,   \* time of the last tick served by backgroundStatusUpdater
    sweeping,    \* goroutines of updateAllProviderStatus that have not probed yet
    pending,     \* cacheStatus calls in flight: provider id, status, probe number
    probes,      \* number of GetStatus probes made so far, per provider id
    regSeq,      \* number of calls of the registry's API so far
    regLast,     \* the last call of the registry's API and what it returned
    regOK,       \* provider objects for which Register returned nil
    written      \* per id: time, status and probe number of the last completed cache write

regVars == <<providers, redisOn, redis, now, lastSweep, sweeping, pending, probes,
             regSeq, regLast, regOK, written>>

VARIABLES
    spc,         \* position of a StreamResponse call
    held,        \* resources the call has acquired and not yet released
    proc,        \* the claude subprocess: "none", "running", "exited", "failed", "killed"
    ctxDone,     \* the deadline of the ctx passed to StreamResponse has elapsed
    sret,        \* what StreamResponse returned ("none" while it runs)
    pipe,        \* chunks the subprocess has written that io.Copy has not read
    nout,        \* chunks io.Copy has passed to the writer
    errRead      \* the handleStderr goroutine has returned

procVars == <<spc, held, proc, ctxDone, sret, pipe, nout, errRead>>

VARIABLES
    probeIn,     \* what a GetStatus call finds on the machine
    probeOut     \* whether GetStatus has been called, and what it returned

probeVars == <<probeIn, probeOut>>

VARIABLES
    cfg,         \* the ClaudeProvider's fields and the arguments of the call
    cmd,         \* the exec.Cmd the call has built: argument vector and stdin
    logf,        \* the transcript <logDir>/claude/chat_N.log and its directories
    sink,        \* what the caller's writer has been given, chunk by chunk
    errpipe      \* chunks the subprocess has written to its standard error

ioVars == <<cfg, cmd, logf, sink, errpipe>>

VARIABLES
    transport,   \* per client: read deadline of c.conn, time of the last frame
                 \* read, whether a write on c.conn has failed
    clock,       \* time in seconds, for the deadlines of the connections
    access       \* the accesses to Client.chatID / Client.provider made by the
                 \* last step that made any, each with whether c.mu was held

connVars == <<transport, clock, access>>

vars == <<hubVars, progVars, regVars, procVars, probeVars, ioVars, connVars>>

\* how the branch of Hub.Run that serves a request holds h.mu
HubLock(o) ==
    CASE o \in {"register", "unregister"} -> "Lock"
      [] o = "broadcast" -> "RLock"
      [] OTHER -> "none"

\* a request received by the hub loop: the channel it came from, the client it
\* names, whether that client was in h.clients when it was received, the
\* clients the request has removed through the broadcast default branch,
\* and how h.mu is held while the request is served
Req(o, c, pr) ==
    [op |-> o, conn |-> c, present |-> pr, dropped |-> {}, lock |-> HubLock(o)]

NoReq == Req("none", "none", FALSE)

(***************************************************************************)
(* Go channel primitives on Client.send.                                   *)
(***************************************************************************)
\* outcome of `select { case c.send <- data: ... default: ... }`
SendOutcome(c) ==
    IF closes[c] > 0 THEN "panic"
    ELSE IF Len(send[c]) < SendCap THEN "sent"
    ELSE "default"

\* a marshalled models.WebSocketMessage; pid is the prompt it answers (0: none)
Envelope(t, p, b) == [type |-> t, pid |-> p, body |-> b]

\* close(c.send): a second close of the same channel panics
CloseSend(c) ==
    /\ closes' = [closes EXCEPT ![c] = @ + 1]
    /\ crashed' = IF closes[c] > 0 THEN "close of closed channel" ELSE crashed

(***************************************************************************)
(* Hub.Run                                                                 *)
(***************************************************************************)
\* a register branch that adds an entry instead of assigning the map key
HubRegisterAppend(c) ==
    /\ crashed = "no"
    /\ hubpc = "select"
    /\ clients' = [clients EXCEPT ![c] = @ + 1]
    /\ hubSeq' = hubSeq + 1
    /\ hubLast' = Req("register", c, clients[c] > 0)
    /\ UNCHANGED <<send, closes, crashed, hubpc, bmsg, todo>>

\* case client := <-h.register
HubRegister(c) ==
    /\ crashed = "no"
    /\ hubpc = "select"
    /\ clients' = [clients EXCEPT ![c] = 1]
    /\ hubSeq' = hubSeq + 1
    /\ hubLast' = Req("register", c, clients[c] > 0)
    /\ UNCHANGED <<send, closes, crashed, hubpc, bmsg, todo>>

\* an unregister branch without the `if _, ok := h.clients[client]; ok` test
HubUnregisterNoCheck(c) ==
    /\ crashed = "no"
    /\ hubpc = "select"
    /\ clients' = [clients EXCEPT ![c] = 0]
    /\ CloseSend(c)
    /\ hubSeq' = hubSeq + 1
    /\ hubLast' = Req("unregister", c, clients[c] > 0)
    /\ UNCHANGED <<send, hubpc, bmsg, todo>>

\* case client := <-h.unregister
HubUnregister(c) ==
    /\ crashed = "no"
    /\ hubpc = "select"
    /\ IF clients[c] > 0
         THEN /\ clients' = [clients EXCEPT ![c] = 0]
              /\ CloseSend(c)
         ELSE UNCHANGED <<clients, closes, crashed>>
    /\ hubSeq' = hubSeq + 1
    /\ hubLast' = Req("unregister", c, clients[c] > 0)
    /\ UNCHANGED <<send, hubpc, bmsg, todo>>

\* case message := <-h.broadcast: the range loop starts over the current keys
HubBroadcast(m) ==
    /\ crashed = "no"
    /\ hubpc = "select"
    /\ hubpc' = "range"
    /\ bmsg' = m
    /\ todo' = {c \in Conns : clients[c] > 0}
    /\ hubSeq' = hubSeq + 1
    /\ hubLast' = Req("broadcast", "none", FALSE)
    /\ UNCHANGED <<clients, send, closes, crashed>>

\* a broadcast default branch that closes the channel but keeps the map entry
HubBroadcastStepNoDelete(c) ==
    /\ crashed = "no"
    /\ hubpc = "range"
    /\ c \in todo
    /\ CASE SendOutcome(c) = "sent" ->
              /\ send' = [send EXCEPT ![c] = Append(@, Envelope("broadcast", 0, bmsg))]
              /\ UNCHANGED <<clients, closes, crashed, hubLast>>
         [] SendOutcome(c) = "default" ->
              /\ CloseSend(c)
              /\ hubLast' = [hubLast EXCEPT !.dropped = @ \cup {c}]
              /\ UNCHANGED <<send, clients>>
         [] SendOutcome(c) = "panic" ->
              /\ crashed' = "send on closed channel"
              /\ UNCHANGED <<clients, send, closes, hubLast>>
    /\ todo' = todo \ {c}
    /\ UNCHANGED <<hubpc, bmsg, hubSeq>>

\* a broadcast loop whose send has no default branch: `client.send <- message`
\* waits until the mailbox has room
HubBroadcastStepBlocking(c) ==
    /\ crashed = "no"
    /\ hubpc = "range"
    /\ c \in todo
    /\ SendOutcome(c) # "default"
    /\ CASE SendOutcome(c) = "sent" ->
              /\ send' = [send EXCEPT ![c] = Append(@, Envelope("broadcast", 0, bmsg))]
              /\ UNCHANGED <<clients, closes, crashed>>
         [] SendOutcome(c) = "panic" ->
              /\ crashed' = "send on closed channel"
              /\ UNCHANGED <<clients, send, closes>>
    /\ todo' = todo \ {c}
    /\ UNCHANGED <<hubpc, bmsg, hubSeq, hubLast>>

\* one iteration of `for client := range h.clients`
HubBroadcastStep(c) ==
    /\ crashed = "no"
    /\ hubpc = "range"
    /\ c \in todo
    /\ CASE SendOutcome(c) = "sent" ->
              /\ send' = [send EXCEPT ![c] = Append(@, Envelope("broadcast", 0, bmsg))]
              /\ UNCHANGED <<clients, closes, crashed>>
              /\ UNCHANGED hubLast
         [] SendOutcome(c) = "default" ->
              /\ CloseSend(c)
              /\ clients' = [clients EXCEPT ![c] = 0]
              /\ hubLast' = [hubLast EXCEPT !.dropped = @ \cup {c}]
              /\ UNCHANGED send
         [] SendOutcome(c) = "panic" ->
              /\ crashed' = "send on closed channel"
              /\ UNCHANGED <<clients, send, closes, hubLast>>
    /\ todo' = todo \ {c}
    /\ UNCHANGED <<hubpc, bmsg, hubSeq>>

\* the range is exhausted: back to the select
HubBroadcastDone ==
    /\ crashed = "no"
    /\ hubpc = "range"
    /\ todo = {}
    /\ hubpc' = "select"
    /\ UNCHANGED <<clients, send, closes, crashed, bmsg, todo, hubSeq, hubLast>>

InitHubVars ==
    /\ clients = [c \in Conns |-> 0]
    /\ send = [c \in Conns |-> <<>>]
    /\ closes = [c \in Conns |-> 0]
    /\ crashed = "no"
    /\ hubpc = "select"
    /\ bmsg = "none"
    /\ todo = {}
    /\ hubSeq = 0
    /\ hubLast = NoReq

(***************************************************************************)
(* ProviderRegistry: Register / Get                                        *)
(***************************************************************************)
\* provider objects; GetID is the id the object reports
ProviderObjs ==
    { [obj |-> "claude1", id |-> "claude"],
      [obj |-> "claude2", id |-> "claude"] }

GetID(p) == p.id

ProviderIds == {GetID(p) : p \in ProviderObjs}

\* ids a caller may pass to the registry
CallIds == ProviderIds \cup {"ghost"}

\* ids a client may name in a prompt: the one main registers and an unknown one
PromptProviderIds == {"claude", "ghost"}

NoProvider == [obj |-> "nil", id |-> "nil"]

\* a Get without the `if !exists` test: the map's zero value and no error
GetNoCheck(id) ==
    IF id \in DOMAIN providers
      THEN [provider |-> providers[id], err |-> FALSE]
      ELSE [provider |-> NoProvider, err |-> FALSE]

\* ProviderRegistry.Get: (provider, nil) or (nil, error)
Get(id) ==
    IF id \in DOMAIN providers
      THEN [provider |-> providers[id], err |-> FALSE]
      ELSE [provider |-> NoProvider, err |-> TRUE]

\* providers.ProviderStatus
Status(a, s, v, d) == [available |-> a, status |-> s, version |-> v, details |-> d]

NoStatus == Status(FALSE, "", "", "")

\* what a GetStatus probe may answer
ProbeResults ==
    { Status(TRUE, "ready", "1.0", "Claude CLI is available"),
      Status(FALSE, "not_installed", "", "Claude CLI not found") }

\* a call of the registry's API: operation, argument, error returned, the
\* provider object returned (Get), the status returned (GetProviderStatus),
\* the time of the call, whether its Redis GET succeeded and whether it
\* invoked the provider's GetStatus; for List, the slice returned and the
\* outcome of the Redis GET made for each provider
Call(o, a, e, ob, st) ==
    [op |-> o, arg |-> a, err |-> e, obj |-> ob, status |-> st, at |-> now,
     readOK |-> TRUE, probed |-> FALSE, list |-> <<>>, reads |-> <<>>]

NoCall == [op |-> "none", arg |-> "none", err |-> FALSE, obj |-> "nil",
           status |-> NoStatus, at |-> 0, readOK |-> TRUE, probed |-> FALSE,
           list |-> <<>>, reads |-> <<>>]

\* a Register that stores the provider also when the id is taken
RegisterOverwrite(obj) ==
    /\ regSeq < MaxCalls
    /\ providers' = (GetID(obj) :> obj) @@ providers
    /\ regOK' = IF GetID(obj) \in DOMAIN providers THEN regOK ELSE regOK \cup {obj}
    /\ regSeq' = regSeq + 1
    /\ regLast' = Call("register", obj.obj, GetID(obj) \in DOMAIN providers, "nil", NoStatus)
    /\ UNCHANGED <<redisOn, redis, now, lastSweep, sweeping, pending, probes,
                   written>>

\* ProviderRegistry.Register
Register(obj) ==
    /\ regSeq < MaxCalls
    /\ IF GetID(obj) \in DOMAIN providers
         THEN \* "provider %s already registered"
              /\ regLast' = Call("register", obj.obj, TRUE, "nil", NoStatus)
              /\ UNCHANGED <<providers, regOK>>
         ELSE /\ providers' = (GetID(obj) :> obj) @@ providers
              /\ regLast' = Call("register", obj.obj, FALSE, "nil", NoStatus)
              /\ regOK' = regOK \cup {obj}
    /\ regSeq' = regSeq + 1
    /\ UNCHANGED <<redisOn, redis, now, lastSweep, sweeping, pending, probes,
                   written>>

\* a caller invokes ProviderRegistry.Get
CallGet(id) ==
    /\ regSeq < MaxCalls
    /\ regSeq' = regSeq + 1
    /\ regLast' = Call("get", id, Get(id).err, Get(id).provider.obj, NoStatus)
    /\ UNCHANGED <<providers, redisOn, redis, now, lastSweep, sweeping, pending,
                   probes, regOK, written>>

(***************************************************************************)
(* The status cache: getCachedStatus, cacheStatus, GetProviderStatus and   *)
(* the background sweep                                                    *)
(***************************************************************************)
\* json.Marshal of a ProviderStatus: version and details are omitempty
Marshal(st) ==
    LET keys == {"available", "status"}
                  \cup (IF st.version # "" THEN {"version"} ELSE {})
                  \cup (IF st.details # "" THEN {"details"} ELSE {})
    IN  [k \in keys |->
            CASE k = "available" -> (IF st.available THEN "true" ELSE "false")
              [] k = "status"    -> st.status
              [] k = "version"   -> st.version
              [] k = "details"   -> st.details]

\* json.Unmarshal into a zero ProviderStatus
Unmarshal(d) ==
    Status("available" \in DOMAIN d /\ d["available"] = "true",
           IF "status" \in DOMAIN d THEN d["status"] ELSE "",
           IF "version" \in DOMAIN d THEN d["version"] ELSE "",
           IF "details" \in DOMAIN d THEN d["details"] ELSE "")

\* the key is in Redis and its expiry has not passed
RedisHas(id) == id \in DOMAIN redis /\ now < redis[id].exp

\* a getCachedStatus that returns the address of its zero status when the
\* GET or the decoding fails, instead of nil
getCachedStatusZeroOnError(id, readOK) ==
    IF redisOn /\ RedisHas(id)
      THEN [hit |-> TRUE, status |-> IF readOK THEN Unmarshal(redis[id].data) ELSE NoStatus]
      ELSE [hit |-> FALSE, status |-> NoStatus]

\* getCachedStatus: nil without a client, on a failed GET (readOK false, or
\* the key missing or expired) or on a value that does not decode
getCachedStatus(id, readOK) ==
    IF redisOn /\ readOK /\ RedisHas(id)
      THEN [hit |-> TRUE, status |-> Unmarshal(redis[id].data)]
      ELSE [hit |-> FALSE, status |-> NoStatus]

\* a cacheStatus that stores the key without an expiry
cacheStatusNoExpiry(id, st) ==
    IF redisOn
      THEN (id :> [data |-> Marshal(st), exp |-> MaxTime + CacheTTL + 2]) @@ redis
      ELSE redis

\* a cacheStatus that updates the fields of the stored value one by one and
\* leaves those the new status does not have
cacheStatusFieldwise(id, st) ==
    IF redisOn
      THEN (id :> [data |-> IF id \in DOMAIN redis THEN Marshal(st) @@ redis[id].data
                                                    ELSE Marshal(st),
                   exp |-> now + CacheTTL]) @@ redis
      ELSE redis

\* cacheStatus: the content of Redis after SET key data EX 5 minutes
cacheStatus(id, st) ==
    IF redisOn
      THEN (id :> [data |-> Marshal(st), exp |-> now + CacheTTL]) @@ redis
      ELSE redis

\* ProviderRegistry.GetProviderStatus; st is what a probe would answer
GetProviderStatus(id, readOK, st) ==
    /\ regSeq < MaxCalls
    /\ regSeq' = regSeq + 1
    /\ IF id \notin DOMAIN providers
         THEN \* "provider %s not found"
              /\ regLast' = Call("status", id, TRUE, "nil", NoStatus)
              /\ UNCHANGED <<probes, pending>>
         ELSE /\ IF getCachedStatus(id, readOK).hit
                   THEN /\ regLast' = Call("status", id, FALSE, "nil",
                                           getCachedStatus(id, readOK).status)
                        /\ UNCHANGED <<probes, pending>>
                   ELSE \* status := provider.GetStatus(); go r.cacheStatus(...)
                        /\ probes' = [probes EXCEPT ![id] = @ + 1]
                        /\ pending' = pending \cup
                              {[id |-> id, status |-> st, n |-> probes[id] + 1]}
                        /\ regLast' = [Call("status", id, FALSE, "nil", st)
                                          EXCEPT !.readOK = readOK, !.probed = TRUE]
    /\ UNCHANGED <<providers, redisOn, redis, now, lastSweep, sweeping, regOK, written>>

\* a cacheStatus call in flight runs; writeOK is whether the SET succeeds
CacheWrite(w, writeOK) ==
    /\ w \in pending
    /\ pending' = pending \ {w}
    /\ IF writeOK
         THEN /\ redis' = cacheStatus(w.id, w.status)
              /\ written' = IF redisOn
                               THEN [written EXCEPT ![w.id] = [at |-> now, status |-> w.status, n |-> w.n]]
                               ELSE written
         ELSE UNCHANGED <<redis, written>>
    /\ UNCHANGED <<providers, redisOn, now, lastSweep, sweeping, probes,
                   regSeq, regLast, regOK>>

\* backgroundStatusUpdater serves a tick: updateAllProviderStatus snapshots
\* the providers and starts one goroutine for each
SweepTick ==
    /\ now - lastSweep >= SweepInterval
    /\ lastSweep' = lastSweep + SweepInterval
    /\ sweeping' = sweeping \cup {[id |-> id, tick |-> lastSweep'] : id \in DOMAIN providers}
    /\ UNCHANGED <<providers, redisOn, redis, now, pending, probes,
                   regSeq, regLast, regOK, written>>

\* a sweep that probes the providers one after the other, in key order,
\* instead of starting one goroutine for each
SweepProbeInOrder(g, st) ==
    /\ g \in sweeping
    /\ \A h \in sweeping : h = g \/ h.tick > g.tick \/ (h.tick = g.tick /\ h.id \in {"claude"})
    /\ sweeping' = sweeping \ {g}
    /\ probes' = [probes EXCEPT ![g.id] = @ + 1]
    /\ pending' = pending \cup {[id |-> g.id, status |-> st, n |-> probes[g.id] + 1]}
    /\ UNCHANGED <<providers, redisOn, redis, now, lastSweep,
                   regSeq, regLast, regOK, written>>

\* a sweep goroutine: status := p.GetStatus(), then r.cacheStatus(id, status)
SweepProbe(g, st) ==
    /\ g \in sweeping
    /\ sweeping' = sweeping \ {g}
    /\ probes' = [probes EXCEPT ![g.id] = @ + 1]
    /\ pending' = pending \cup {[id |-> g.id, status |-> st, n |-> probes[g.id] + 1]}
    /\ UNCHANGED <<providers, redisOn, redis, now, lastSweep,
                   regSeq, regLast, regOK, written>>

\* a minute passes
Tick ==
    /\ now < MaxTime
    /\ now' = now + 1
    /\ UNCHANGED <<providers, redisOn, redis, lastSweep, sweeping, pending, probes,
                   regSeq, regLast, regOK, written>>

\* the orders in which `for _, p := range r.providers` may visit the keys
RangeOrders ==
    {o \in [1..Cardinality(DOMAIN providers) -> DOMAIN providers] :
        \A i, j \in DOMAIN o : i # j => o[i] # o[j]}

\* a List entry that always carries the probe's answer
ListEntryNoCache(id, readOK, st) ==
    [id |-> id, available |-> st.available, status |-> st.status,
     version |-> st.version, details |-> st.details]

\* the models.Provider that List builds for provider id: the cached status
\* when getCachedStatus returns one, else what p.GetStatus() answers (st)
ListEntry(id, readOK, st) ==
    LET c == getCachedStatus(id, readOK)
        u == IF c.hit THEN c.status ELSE st
    IN  [id |-> id, available |-> u.available, status |-> u.status,
         version |-> u.version, details |-> u.details]

\* result = append(result, provider) over the range, visited in order o
RECURSIVE ListAppend(_, _, _, _)
ListAppend(result, o, reads, sts) ==
    IF o = <<>> THEN result
    ELSE ListAppend(Append(result, ListEntry(Head(o), reads[Head(o)], sts[Head(o)])),
                    Tail(o), reads, sts)

\* ProviderRegistry.List; reads[id] is whether the Redis GET for id succeeds,
\* sts[id] what a probe of id would answer
List(o, reads, sts) ==
    LET misses == {id \in DOMAIN providers : ~getCachedStatus(id, reads[id]).hit} IN
    /\ regSeq < MaxCalls
    /\ regSeq' = regSeq + 1
    /\ probes' = [id \in DOMAIN probes |->
                     IF id \in misses THEN probes[id] + 1 ELSE probes[id]]
    \* go r.cacheStatus(p.GetID(), status)
    /\ pending' = pending \cup
          {[id |-> id, status |-> sts[id], n |-> probes[id] + 1] : id \in misses}
    /\ regLast' = [Call("list", "all", FALSE, "nil", NoStatus)
                      EXCEPT !.list = ListAppend(<<>>, o, reads, sts),
                             !.reads = reads]
    /\ UNCHANGED <<providers, redisOn, redis, now, lastSweep, sweeping, regOK, written>>

(***************************************************************************)
(* WebSocketHandler, readPump, writePump                                   *)
(***************************************************************************)
PromptIds == 1..MaxPrompts

\* data.ChatID of the frames that carry one
ChatIds == {42}

\* calls[i] of a prompt: the i-th call its handler and goroutine made
CallOf(fn, arg, ok) == [fn |-> fn, arg |-> arg, ok |-> ok]

NoPrompt ==
    [conn |-> "none", provider |-> "none", pc |-> "none", err |-> "nil",
     chunks |-> 0, responses |-> 0, ends |-> 0, errors |-> 0, streams |-> 0,
     userMsgs |-> 0, chat |-> 0, buffer |-> <<>>, got |-> <<>>, log |-> <<>>,
     calls |-> <<>>, ctx |-> "none"]

\* log[i] of a prompt: type and ChatID of the i-th envelope enqueued for it
\* (sendError sets neither ChatID nor Provider)
Logged(t, ch, id) == [type |-> t, chat |-> ch, provider |-> id]

\* one access to a field of Client c, with whether c.mu was held
Access(c, field, op, locked) == [conn |-> c, field |-> field, op |-> op, locked |-> locked]

\* no frame has been read
NoFrames == [n |-> 0, conn |-> "none", type |-> "none", chat |-> 0, provider |-> ""]

\* readPump has read one more frame, of the given type, on c
FrameRead(c, t) == [n |-> frames.n + 1, conn |-> c, type |-> t, chat |-> 0, provider |-> ""]

\* a frame whose msg.Data carries a chat id and a provider id
FrameWith(c, t, ch, id) == [FrameRead(c, t) EXCEPT !.chat = ch, !.provider = id]

\* data.ChatID of the session_status frames: absent (0), or a chat other
\* than that of the prompts
SessionChatIds == {0, 7}

\* data.Provider of the session_status frames
SessionProviderIds == {"ghost"}

\* msg.Data of a frame
WSMsgData(ch, id) == [chat |-> ch, provider |-> id]

\* c.send <- data inside a select with a default branch, for envelope e:
\* the channel content and the crash flag after the statement
TrySend(c, e) ==
    /\ send' = IF SendOutcome(c) = "sent"
                 THEN [send EXCEPT ![c] = Append(@, e)] ELSE send
    /\ crashed' = IF SendOutcome(c) = "panic"
                    THEN "send on closed channel" ELSE crashed

\* c.conn.SetReadDeadline(time.Now().Add(60 * time.Second))
ReadWait == 60

\* how long the clients wait between two things they do, in seconds
Delays == {20, 40}

MaxClock == 80

\* a connection just upgraded, at time t
NewTransport(t) ==
    [readDeadline |-> t + ReadWait, lastRead |-> t, readErr |-> "none", writeErr |-> FALSE,
     closeFrame |-> FALSE]

InitConnVars ==
    /\ transport = [c \in Conns |-> NewTransport(0)]
    /\ clock = 0
    /\ access = {}

\* c.conn.ReadMessage() returns a frame: the read deadline has not passed
ReadMessage(c) ==
    /\ clock < transport[c].readDeadline
    /\ transport' = [transport EXCEPT ![c].lastRead = clock]

\* WebSocketHandler: the connection is upgraded, the Client built,
\* client.hub.register <- client is received and both pumps are started
WebSocketHandler(c) ==
    /\ hs[c] = "none"
    /\ HubRegister(c)
    /\ hs' = [hs EXCEPT ![c] = "started"]
    /\ rpc' = [rpc EXCEPT ![c] = "read"]
    /\ wpc' = [wpc EXCEPT ![c] = "run"]
    /\ UNCHANGED <<connClosed, chatID, provider, frames, nprompts, prompts, regVars, procVars, probeVars, ioVars, connVars>>

\* a handler in which a failed save of the user message ends the prompt
AcceptSaveOrStop(base, saved) ==
    IF saved
      THEN [base EXCEPT !.pc = "stream", !.streams = 1, !.userMsgs = 1, !.ctx = "live",
                        !.calls = <<CallOf("AddMessage", <<"user", "prompt">>, TRUE),
                                    CallOf("StreamResponse", "", TRUE)>>]
      ELSE [base EXCEPT !.pc = "done",
                        !.calls = <<CallOf("AddMessage", <<"user", "prompt">>, FALSE)>>]

\* a handler that makes the context itself and defers cancel(): the context
\* is cancelled when the handler returns, right after the go statement
AcceptCancelAtReturn(base, saved) ==
    [base EXCEPT !.pc = "stream", !.streams = 1, !.ctx = "cancel",
                 !.userMsgs = IF saved THEN 1 ELSE 0,
                 !.calls = <<CallOf("AddMessage", <<"user", "prompt">>, saved),
                             CallOf("StreamResponse", "", TRUE)>>]

\* the prompt after AddMessage(data.ChatID, "user", data.Content), whose
\* error is only logged, and the go statement that calls StreamResponse;
\* the goroutine makes its context with context.WithTimeout(5 * time.Minute)
Accept(base, saved) ==
    [base EXCEPT !.pc = "stream", !.streams = 1, !.ctx = "live",
                 !.userMsgs = IF saved THEN 1 ELSE 0,
                 !.calls = <<CallOf("AddMessage", <<"user", "prompt">>, saved),
                             CallOf("StreamResponse", "", TRUE)>>]

\* Client.handleAIPrompt, called by readPump for an ai_prompt frame naming
\* chat ch and provider id; available is what provider.IsAvailable() answers,
\* saved whether AddMessage(ch, "user", ...) succeeds
handleAIPrompt(c, id, available, ch, saved) ==
    LET p == nprompts + 1
        base == [NoPrompt EXCEPT !.conn = c, !.provider = id, !.chat = ch]
        sent == SendOutcome(c) = "sent"
    IN  /\ nprompts' = p
        /\ chatID' = [chatID EXCEPT ![c] = ch]
        /\ provider' = [provider EXCEPT ![c] = id]
        /\ access' = {Access(c, "chatID", "write", TRUE),
                      Access(c, "provider", "write", TRUE)}
        /\ IF Get(id).err
             THEN \* sendError("Provider not found"); return
                  /\ TrySend(c, Envelope("error", p, "not found"))
                  /\ prompts' = [prompts EXCEPT ![p] =
                        [base EXCEPT !.pc = "notfound",
                                     !.errors = IF sent THEN 1 ELSE 0,
                                     !.log = IF sent THEN <<Logged("error", 0, "")>> ELSE <<>>,
                                     !.calls = <<CallOf("sendError", "not found", sent)>>]]
             ELSE IF ~available
             THEN \* sendError("Provider is not available"); return
                  /\ TrySend(c, Envelope("error", p, "unavailable"))
                  /\ prompts' = [prompts EXCEPT ![p] =
                        [base EXCEPT !.pc = "unavailable",
                                     !.errors = IF sent THEN 1 ELSE 0,
                                     !.log = IF sent THEN <<Logged("error", 0, "")>> ELSE <<>>,
                                     !.calls = <<CallOf("sendError", "unavailable", sent)>>]]
             ELSE \* AddMessage(user); go func() { provider.StreamResponse(...) }
                  /\ prompts' = [prompts EXCEPT ![p] = Accept(base, saved)]
                  /\ UNCHANGED <<send, crashed>>

\* readPump reads an ai_prompt frame and dispatches it
ReadPumpPrompt(c, id, available, ch, saved) ==
    /\ crashed = "no"
    /\ rpc[c] = "read"
    /\ ~connClosed[c]
    /\ nprompts < MaxPrompts
    /\ ReadMessage(c)
    /\ frames' = FrameWith(c, "ai_prompt", ch, id)
    /\ handleAIPrompt(c, id, available, ch, saved)
    /\ UNCHANGED <<clients, closes, hubpc, bmsg, todo, hubSeq, hubLast,
                   hs, rpc, wpc, connClosed, regVars, procVars, probeVars, ioVars, clock>>

\* a handler that binds whatever the frame carries
handleSessionStatusBindsAll(c, data) ==
    /\ chatID' = [chatID EXCEPT ![c] = data.chat]
    /\ provider' = [provider EXCEPT ![c] = data.provider]
    /\ access' = {Access(c, "chatID", "write", TRUE), Access(c, "provider", "write", TRUE)}

\* Client.handleSessionStatus: the chat id is bound when the frame has one;
\* data.Provider is not looked at
handleSessionStatus(c, data) ==
    /\ chatID' = IF data.chat > 0 THEN [chatID EXCEPT ![c] = data.chat] ELSE chatID
    /\ access' = IF data.chat > 0 THEN {Access(c, "chatID", "write", TRUE)} ELSE access
    /\ UNCHANGED provider

\* readPump reads a session_status frame and dispatches it
ReadPumpSessionStatus(c, ch, id) ==
    /\ crashed = "no"
    /\ rpc[c] = "read"
    /\ ~connClosed[c]
    /\ frames.n < MaxFrames
    /\ ReadMessage(c)
    /\ frames' = FrameWith(c, "session_status", ch, id)
    /\ handleSessionStatus(c, WSMsgData(ch, id))
    /\ UNCHANGED <<hubVars, hs, rpc, wpc, connClosed, nprompts, prompts,
                   regVars, procVars, probeVars, ioVars, clock>>

\* a read pump that leaves its loop on a frame it does not dispatch
ReadPumpBreak(c) ==
    /\ rpc' = [rpc EXCEPT ![c] = "unreg"]
    /\ UNCHANGED <<hubVars, hs, wpc, connClosed, chatID, provider, nprompts, prompts,
                   regVars, procVars, probeVars, ioVars, clock, access>>

\* what readPump does with a frame it skips: log, next iteration of the loop
ReadPumpContinue(c) ==
    UNCHANGED <<hubVars, hs, rpc, wpc, connClosed, chatID, provider, nprompts, prompts,
                regVars, procVars, probeVars, ioVars, clock, access>>

\* readPump reads a frame that json.Unmarshal rejects: utils.Error, continue
ReadPumpMalformed(c) ==
    /\ crashed = "no"
    /\ rpc[c] = "read"
    /\ ~connClosed[c]
    /\ frames.n < MaxFrames
    /\ ReadMessage(c)
    /\ frames' = FrameRead(c, "malformed")
    /\ ReadPumpContinue(c)

\* readPump reads a frame whose type no case of the switch names: utils.Warn
ReadPumpUnknown(c) ==
    /\ crashed = "no"
    /\ rpc[c] = "read"
    /\ ~connClosed[c]
    /\ frames.n < MaxFrames
    /\ ReadMessage(c)
    /\ frames' = FrameRead(c, "unknown")
    /\ ReadPumpContinue(c)

\* ReadMessage fails (peer gone, read deadline): the loop breaks
ReadPumpError(c) ==
    /\ crashed = "no"
    /\ rpc[c] = "read"
    /\ ~connClosed[c]
    /\ rpc' = [rpc EXCEPT ![c] = "unreg"]
    /\ UNCHANGED <<hubVars, hs, wpc, connClosed, chatID, provider, frames, nprompts, prompts, regVars, procVars, probeVars, ioVars, connVars>>

\* ReadMessage fails because writePump closed the transport
ReadPumpConnClosed(c) ==
    /\ crashed = "no"
    /\ rpc[c] = "read"
    /\ connClosed[c]
    /\ rpc' = [rpc EXCEPT ![c] = "unreg"]
    /\ UNCHANGED <<hubVars, hs, wpc, connClosed, chatID, provider, frames, nprompts, prompts, regVars, procVars, probeVars, ioVars, connVars>>

\* the deferred c.hub.unregister <- c is received, then c.conn.Close()
ReadPumpUnregister(c) ==
    /\ rpc[c] = "unreg"
    /\ HubUnregister(c)
    /\ rpc' = [rpc EXCEPT ![c] = "done"]
    /\ connClosed' = [connClosed EXCEPT ![c] = TRUE]
    /\ UNCHANGED <<hs, wpc, chatID, provider, frames, nprompts, prompts, regVars, procVars, probeVars, ioVars, connVars>>

\* message, ok := <-c.send with ok, and c.conn.WriteMessage fails: the
\* error is not looked at and the loop goes on
WritePumpWriteFail(c) ==
    /\ crashed = "no"
    /\ wpc[c] = "run"
    /\ Len(send[c]) > 0
    /\ send' = [send EXCEPT ![c] = Tail(@)]
    /\ transport' = [transport EXCEPT ![c].writeErr = TRUE]
    /\ UNCHANGED <<clients, closes, crashed, hubpc, bmsg, todo, hubSeq, hubLast,
                   progVars, regVars, procVars, probeVars, ioVars, clock, access>>

\* message, ok := <-c.send with ok: the frame is written
WritePumpRecv(c) ==
    /\ crashed = "no"
    /\ wpc[c] = "run"
    /\ ~transport[c].writeErr
    /\ Len(send[c]) > 0
    /\ send' = [send EXCEPT ![c] = Tail(@)]
    /\ UNCHANGED <<clients, closes, crashed, hubpc, bmsg, todo, hubSeq, hubLast,
                   progVars, regVars, procVars, probeVars, ioVars, connVars>>

\* time passes
PumpTick(d) ==
    /\ clock + d <= MaxClock
    /\ clock' = clock + d
    /\ UNCHANGED <<hubVars, progVars, regVars, procVars, probeVars, ioVars, transport, access>>

\* the pong handler set by readPump runs inside ReadMessage
PongHandler(c) ==
    /\ crashed = "no"
    /\ rpc[c] = "read"
    /\ ~connClosed[c]
    /\ clock < transport[c].readDeadline
    /\ transport' = [transport EXCEPT ![c].readDeadline = clock + ReadWait]
    /\ UNCHANGED <<hubVars, progVars, regVars, procVars, probeVars, ioVars, clock, access>>

\* ReadMessage fails with a timeout: the read deadline has passed
ReadPumpTimeout(c) ==
    /\ crashed = "no"
    /\ rpc[c] = "read"
    /\ ~connClosed[c]
    /\ clock >= transport[c].readDeadline
    /\ rpc' = [rpc EXCEPT ![c] = "unreg"]
    /\ transport' = [transport EXCEPT ![c].readErr = "timeout"]
    /\ UNCHANGED <<hubVars, hs, wpc, connClosed, chatID, provider, frames, nprompts, prompts,
                   regVars, procVars, probeVars, ioVars, clock, access>>

\* message, ok := <-c.send with !ok: a receive on a closed channel gives
\* !ok only when nothing is buffered; close frame, return, deferred
\* c.conn.Close()
WritePumpClosed(c) ==
    /\ crashed = "no"
    /\ wpc[c] = "run"
    /\ Len(send[c]) = 0
    /\ closes[c] > 0
    /\ wpc' = [wpc EXCEPT ![c] = "done"]
    /\ connClosed' = [connClosed EXCEPT ![c] = TRUE]
    /\ transport' = [transport EXCEPT ![c].closeFrame = TRUE]
    /\ UNCHANGED <<hubVars, hs, rpc, chatID, provider, frames, nprompts, prompts, regVars,
                   procVars, probeVars, ioVars, clock, access>>

\* <-ticker.C and the ping write fails: return, deferred c.conn.Close()
WritePumpPingFail(c) ==
    /\ crashed = "no"
    /\ wpc[c] = "run"
    /\ wpc' = [wpc EXCEPT ![c] = "done"]
    /\ connClosed' = [connClosed EXCEPT ![c] = TRUE]
    /\ UNCHANGED <<hubVars, hs, rpc, chatID, provider, frames, nprompts, prompts, regVars, procVars, probeVars, ioVars, connVars>>

(***************************************************************************)
(* The stream goroutine started by handleAIPrompt                          *)
(***************************************************************************)
\* results of provider.StreamResponse
StreamResults == {"nil", "failed", "timeout"}

\* chunks of standard output io.Copy may hand to the writer: an ASCII
\* letter with a two-byte UTF-8 character, and the first byte of that
\* character alone (the read ended inside the character)
Chunks == {<<"h", "c3", "a9">>, <<"c3">>}

\* the Content string as json.Marshal writes it and the peer decodes it:
\* bytes that are not valid UTF-8 are replaced by U+FFFD (ef bf bd)
RECURSIVE ToValidUTF8(_)
ToValidUTF8(b) ==
    IF b = <<>> THEN <<>>
    ELSE IF Len(b) >= 2 /\ b[1] = "c3" /\ b[2] = "a9"
      THEN <<"c3", "a9">> \o ToValidUTF8(SubSeq(b, 3, Len(b)))
    ELSE IF b[1] \in {"c3", "a9"}
      THEN <<"ef", "bf", "bd">> \o ToValidUTF8(Tail(b))
    ELSE <<b[1]>> \o ToValidUTF8(Tail(b))

\* websocketWriter.Write, called by io.Copy for one chunk b of standard output
websocketWriterWrite(p, b) ==
    LET c == prompts[p].conn IN
    /\ crashed = "no"
    /\ prompts[p].pc = "stream"
    /\ prompts[p].chunks < MaxChunks
    /\ TrySend(c, Envelope("ai_response", p, ToValidUTF8(b)))
    /\ prompts' = [prompts EXCEPT ![p] =
          CASE SendOutcome(c) = "sent" ->
                 [@ EXCEPT !.chunks = @ + 1, !.responses = @ + 1,
                           !.buffer = @ \o b, !.got = @ \o ToValidUTF8(b),
                           !.log = Append(@, Logged("ai_response", chatID[c], provider[c]))]
            [] SendOutcome(c) = "default" ->
                 \* io.ErrClosedPipe: io.Copy fails and StreamResponse returns it
                 [@ EXCEPT !.chunks = @ + 1, !.pc = "completion", !.err = "failed",
                           !.buffer = @ \o b]
            [] SendOutcome(c) = "panic" -> @]
    /\ access' = {Access(c, "chatID", "read", FALSE), Access(c, "provider", "read", FALSE)}
    /\ UNCHANGED <<clients, closes, hubpc, bmsg, todo, hubSeq, hubLast,
                   hs, rpc, wpc, connClosed, chatID, provider, frames, nprompts, regVars,
                   procVars, probeVars, ioVars, transport, clock>>

\* provider.StreamResponse returns: success, a setup / exit failure, or the
\* subprocess killed at the context deadline
StreamReturn(p, r) ==
    /\ crashed = "no"
    /\ prompts[p].pc = "stream"
    /\ prompts' = [prompts EXCEPT ![p] =
          [@ EXCEPT !.pc = "completion", !.err = r,
                    !.ctx = IF r = "timeout" THEN "deadline" ELSE @]]
    /\ UNCHANGED <<hubVars, hs, rpc, wpc, connClosed, chatID, provider, frames, nprompts, regVars, procVars, probeVars, ioVars, connVars>>

\* the goroutine's deferred cancel() runs when its function returns
DeferCancel(q) ==
    IF q.pc = "done" /\ q.ctx = "live" THEN [q EXCEPT !.ctx = "cancel"] ELSE q

\* where the goroutine goes after sendStreamCompletion
AfterCompletion(q) ==
    IF q.err # "nil" THEN "senderr"
    ELSE IF q.buffer # <<>> THEN "save" ELSE "done"

\* Client.sendStreamCompletion(data.ChatID), then the branch on err
sendStreamCompletion(p) ==
    LET c == prompts[p].conn
        sent == SendOutcome(c) = "sent"
    IN
    /\ crashed = "no"
    /\ prompts[p].pc = "completion"
    /\ TrySend(c, Envelope("ai_response_end", p, prompts[p].chat))
    /\ prompts' = [prompts EXCEPT ![p] =
          IF SendOutcome(c) = "panic" THEN @
          ELSE DeferCancel(
               [@ EXCEPT !.ends = IF sent THEN @ + 1 ELSE @,
                         !.log = IF sent THEN Append(@, Logged("ai_response_end", prompts[p].chat,
                                                               provider[c]))
                                ELSE @,
                         !.calls = Append(@, CallOf("sendStreamCompletion", "", sent)),
                         !.pc = AfterCompletion(prompts[p])])]
    /\ access' = {Access(c, "provider", "read", FALSE)}
    /\ UNCHANGED <<clients, closes, hubpc, bmsg, todo, hubSeq, hubLast,
                   hs, rpc, wpc, connClosed, chatID, provider, frames, nprompts, regVars,
                   procVars, probeVars, ioVars, transport, clock>>

\* Client.sendError("Failed to get response: ...") of the stream goroutine
sendError(p) ==
    LET c == prompts[p].conn
        sent == SendOutcome(c) = "sent"
    IN
    /\ crashed = "no"
    /\ prompts[p].pc = "senderr"
    /\ TrySend(c, Envelope("error", p, "failed"))
    /\ prompts' = [prompts EXCEPT ![p] =
          IF SendOutcome(c) = "panic" THEN @
          ELSE DeferCancel(
               [@ EXCEPT !.errors = IF sent THEN @ + 1 ELSE @,
                         !.log = IF sent THEN Append(@, Logged("error", 0, "")) ELSE @,
                         !.calls = Append(@, CallOf("sendError", "failed", sent)),
                         !.pc = "done"])]
    /\ UNCHANGED <<clients, closes, hubpc, bmsg, todo, hubSeq, hubLast,
                   hs, rpc, wpc, connClosed, chatID, provider, frames, nprompts, regVars, procVars, probeVars, ioVars, connVars>>

\* AddMessage(data.ChatID, "assistant", responseContent) of the stream
\* goroutine; a failure is logged
AddMessageAssistant(p, saved) ==
    /\ crashed = "no"
    /\ prompts[p].pc = "save"
    /\ prompts' = [prompts EXCEPT ![p] =
          DeferCancel(
          [@ EXCEPT !.calls = Append(@, CallOf("AddMessage",
                                               <<"assistant", prompts[p].buffer>>, saved)),
                    !.pc = "done"])]
    /\ UNCHANGED <<hubVars, hs, rpc, wpc, connClosed, chatID, provider, frames, nprompts,
                   regVars, procVars, probeVars, ioVars, connVars>>

\* the provider main builds and a call for chat 42
NoCfg == [skipPermissions |-> FALSE, extraArgs |-> <<>>, prompt |-> <<"p">>, chat |-> 42]

\* no exec.Cmd has been built
NoCmd == [built |-> FALSE, args |-> <<>>, stdin |-> <<>>, env |-> {}]

\* no transcript and no directory for it
NoLog == [dirs |-> FALSE, exists |-> FALSE, content |-> <<>>]

InitIoVars ==
    /\ cfg = NoCfg
    /\ cmd = NoCmd
    /\ logf = NoLog
    /\ sink = <<>>
    /\ errpipe = 0

\* unicode.IsSpace, for the characters used here
Space(ch) == ch \in {" ", "\n"}

(***************************************************************************)
(* The command line of the claude subprocess                               *)
(*                                                                         *)
(* A string is the sequence of its characters; the two literal flags are   *)
(* kept as one symbol each.                                                *)
(***************************************************************************)
MaxLen == 3

Alphabet == {"a", "b", " ", "\n"}

RECURSIVE Strings(_)
Strings(n) ==
    IF n = 0 THEN {<<>>}
    ELSE Strings(n - 1) \cup {Append(str, ch) : str \in Strings(n - 1), ch \in Alphabet}

Prompts == {<<"a">>, <<"b", " ", "a">>}

PrintFlag == <<"--print">>

SkipFlag == <<"--dangerously-skip-permissions">>

\* strings.Fields: the maximal runs of characters that are not white space;
\* cur is the run being read, acc the runs already closed
RECURSIVE FieldsFrom(_, _, _)
FieldsFrom(str, cur, acc) ==
    IF str = <<>> THEN (IF cur = <<>> THEN acc ELSE Append(acc, cur))
    ELSE IF Space(Head(str))
           THEN FieldsFrom(Tail(str), <<>>, IF cur = <<>> THEN acc ELSE Append(acc, cur))
           ELSE FieldsFrom(Tail(str), Append(cur, Head(str)), acc)

Fields(str) == FieldsFrom(str, <<>>, <<>>)

\* a slip: the prompt is passed as the last argument as well
buildArgsWithPrompt(p, baseArgs) ==
    baseArgs
      \o (IF p.skipPermissions THEN <<SkipFlag>> ELSE <<>>)
      \o (IF p.extraArgs # <<>> THEN Fields(p.extraArgs) ELSE <<>>)
      \o <<p.prompt>>

\* ClaudeProvider.buildArgs of provider p
buildArgs(p, baseArgs) ==
    baseArgs
      \o (IF p.skipPermissions THEN <<SkipFlag>> ELSE <<>>)
      \o (IF p.extraArgs # <<>> THEN Fields(p.extraArgs) ELSE <<>>)

\* the exec.Cmd of a call with this prompt: exec.CommandContext(ctx,
\* p.cliPath, args...) and cmd.Stdin
Command(p, stdin, env) ==
    [built |-> TRUE, args |-> buildArgs(p, <<PrintFlag>>), stdin |-> stdin, env |-> env]

\* what the two entry points add to os.Environ()
StreamEnv == {"CI=true", "TERM=dumb", "NO_COLOR=1", "FORCE_COLOR=0"}

SendPromptEnv == {"CI=true", "TERM=dumb", "NO_COLOR=1", "CLAUDE_DISABLE_RAW_MODE=1"}

(***************************************************************************)
(* ClaudeProvider.StreamResponse: one call, step by step                   *)
(***************************************************************************)
\* no call has been made
InitProcVars ==
    /\ spc = "call"
    /\ held = {}
    /\ proc = "none"
    /\ ctxDone = FALSE
    /\ sret = "none"
    /\ pipe = 0
    /\ nout = 0
    /\ errRead = FALSE

\* StreamResponse returns err after its deferred calls have left h held
Return(h, err) ==
    /\ spc' = "returned"
    /\ held' = h
    /\ sret' = err

\* one write to the transcript or to the sink
Entry(kind, n) == [kind |-> kind, n |-> n]

\* what the transcript of the chat may be when a call begins: no directory,
\* a directory without the file, the file with the lines of earlier prompts
LogStates ==
    {NoLog,
     [dirs |-> TRUE, exists |-> FALSE, content |-> <<>>],
     [dirs |-> TRUE, exists |-> TRUE, content |-> <<Entry("earlier", 0)>>]}

CreateOutcomes == {"ok", "mkdir", "open"}

\* a slip: the file is opened with O_TRUNC
CreateFileTruncating(f, res) ==
    IF res = "mkdir" THEN [file |-> f, err |-> TRUE]
    ELSE IF res = "open" THEN [file |-> [f EXCEPT !.dirs = TRUE], err |-> TRUE]
    ELSE [file |-> [dirs |-> TRUE, exists |-> TRUE, content |-> <<>>], err |-> FALSE]

\* utils.CreateFile on the transcript f: EnsureDirForFile (os.MkdirAll),
\* then os.OpenFile(path, O_CREATE|O_APPEND|O_WRONLY); res is the step
\* that fails, if any
CreateFile(f, res) ==
    IF res = "mkdir" THEN [file |-> f, err |-> TRUE]
    ELSE IF res = "open" THEN [file |-> [f EXCEPT !.dirs = TRUE], err |-> TRUE]
    ELSE [file |-> [dirs |-> TRUE, exists |-> TRUE, content |-> f.content], err |-> FALSE]

\* a write through the O_APPEND descriptor
Fprintf(f, e) == [f EXCEPT !.content = Append(@, e)]

\* setupLogging: utils.CreateFile, then the two Fprintf; defer logFile.Close()
setupLogging(res) ==
    /\ spc = "call"
    /\ LET r == CreateFile(logf, res)
       IN  IF ~r.err
             THEN /\ logf' = Fprintf(Fprintf(r.file, Entry("USER", 0)), Entry("ASSISTANT", 0))
                  /\ held' = held \cup {"logFile"}
                  /\ spc' = "tempfile"
                  /\ UNCHANGED sret
             ELSE /\ logf' = r.file
                  /\ Return(held, "log")
    /\ UNCHANGED <<proc, ctxDone, pipe, nout, errRead>>
    /\ UNCHANGED <<cfg, cmd, sink, errpipe>>

\* createTempPromptFile, first half: os.CreateTemp
CreateTemp(ok) ==
    /\ spc = "tempfile"
    /\ IF ok THEN /\ held' = held \cup {"tmpHandle", "tmpFile"}
                  /\ spc' = "write"
                  /\ UNCHANGED sret
             ELSE Return(held \ {"logFile"}, "tempfile")
    /\ UNCHANGED <<proc, ctxDone, pipe, nout, errRead>>

\* createTempPromptFile, second half: tmpFile.WriteString, then
\* tmpFile.Close(); on a write error cleanup() closes and removes the file
WriteString(ok) ==
    /\ spc = "write"
    /\ IF ok THEN /\ held' = held \ {"tmpHandle"}
                  /\ spc' = "open"
                  /\ UNCHANGED sret
             ELSE Return((held \ {"tmpHandle", "tmpFile"}) \ {"logFile"}, "tempfile")
    /\ UNCHANGED <<proc, ctxDone, pipe, nout, errRead>>

\* the deferred calls of StreamResponse once createTempPromptFile has
\* returned: cleanup() removes the temporary file, logFile.Close()
Deferred(h) == h \ {"tmpHandle", "tmpFile", "logFile"}

\* setupClaudeCommand: buildArgs and exec.CommandContext, then os.Open of
\* the temporary file, which holds the prompt, for cmd.Stdin
OpenStdin(ok) ==
    /\ spc = "open"
    /\ cmd' = Command(cfg, IF ok THEN cfg.prompt ELSE <<>>, StreamEnv)
    /\ IF ok THEN /\ held' = held \cup {"stdinFile"}
                  /\ spc' = "stdout"
                  /\ UNCHANGED sret
             ELSE Return(Deferred(held), "open")
    /\ UNCHANGED <<proc, ctxDone, pipe, nout, errRead>>
    /\ UNCHANGED <<cfg, logf, sink, errpipe>>

\* setupClaudeCommand: cmd.StdoutPipe()
StdoutPipe(ok) ==
    /\ spc = "stdout"
    /\ IF ok THEN /\ held' = held \cup {"stdoutPipe"}
                  /\ spc' = "stderr"
                  /\ UNCHANGED sret
             ELSE Return(Deferred(held), "pipe")
    /\ UNCHANGED <<proc, ctxDone, pipe, nout, errRead>>

\* setupClaudeCommand: cmd.StderrPipe()
StderrPipe(ok) ==
    /\ spc = "stderr"
    /\ IF ok THEN /\ held' = held \cup {"stderrPipe"}
                  /\ spc' = "start"
                  /\ UNCHANGED sret
             ELSE Return(Deferred(held), "pipe")
    /\ UNCHANGED <<proc, ctxDone, pipe, nout, errRead>>

\* cmd.Start(): on failure os/exec closes the pipes it created, and
\* StreamResponse returns "failed to start claude CLI"
Start(ok) ==
    /\ spc = "start"
    /\ IF ok /\ ~ctxDone
         THEN /\ proc' = "running"
              /\ spc' = "copy"
              /\ UNCHANGED <<held, sret>>
         ELSE /\ Return(Deferred(held \ {"stdoutPipe", "stderrPipe"}), "start")
              /\ UNCHANGED proc
    /\ UNCHANGED <<ctxDone, pipe, nout, errRead>>

\* the deferred calls of handleCommandExecution: stdout.Close(),
\* stderr.Close(), and file.Close() of cmd.Stdin
DeferredExec(h) == h \ {"stdoutPipe", "stderrPipe", "stdinFile"}

\* io.Copy reads one chunk from the stdout pipe
CopyRead ==
    /\ spc = "copy"
    /\ pipe > 0
    /\ pipe' = pipe - 1
    /\ spc' = "deliver"
    /\ UNCHANGED <<held, proc, ctxDone, sret, nout, errRead>>

\* io.Copy passes the chunk to the MultiWriter (the websocketWriter, then
\* the transcript); when a writer fails handleCommandExecution returns
\* "failed to copy output"
WriteOutcomes == {"ok", "sink", "log"}

\* a slip: the transcript is the first writer of the MultiWriter
MultiWriteLogFirst(n, res) ==
    [sink |-> IF res = "ok" THEN Append(sink, Entry("out", n)) ELSE sink,
     file |-> IF res \in {"ok", "sink"} THEN Fprintf(logf, Entry("out", n)) ELSE logf,
     err  |-> res # "ok"]

\* io.MultiWriter(writer, logFile).Write of chunk n: the writers in order,
\* stopping at the first that fails; res is the writer that fails, if any
MultiWrite(n, res) ==
    [sink |-> IF res \in {"ok", "log"} THEN Append(sink, Entry("out", n)) ELSE sink,
     file |-> IF res = "ok" THEN Fprintf(logf, Entry("out", n)) ELSE logf,
     err  |-> res # "ok"]

CopyChunk(res) ==
    /\ spc = "deliver"
    /\ nout' = nout + 1
    /\ LET w == MultiWrite(nout + 1, res)
       IN  /\ sink' = w.sink
           /\ logf' = w.file
           /\ IF ~w.err THEN /\ spc' = "copy"
                             /\ UNCHANGED <<held, sret>>
                        ELSE Return(Deferred(DeferredExec(held)), "copy")
    /\ UNCHANGED <<proc, ctxDone, pipe, errRead>>
    /\ UNCHANGED <<cfg, cmd, errpipe>>

\* the subprocess writes a chunk to its standard output
ProcWrite ==
    /\ proc = "running"
    /\ pipe + nout < MaxChunks
    /\ pipe' = pipe + 1
    /\ UNCHANGED <<spc, held, proc, ctxDone, sret, nout, errRead>>

\* the subprocess writes a chunk to its standard error
ProcWriteErr ==
    /\ proc = "running"
    /\ errpipe < MaxChunks
    /\ errpipe' = errpipe + 1
    /\ UNCHANGED <<cfg, cmd, logf, sink>>
    /\ UNCHANGED procVars

\* the subprocess exits by itself, with status 0 (ok) or not
ProcExit(ok) ==
    /\ proc = "running"
    /\ proc' = IF ok THEN "exited" ELSE "failed"
    /\ UNCHANGED <<spc, held, ctxDone, sret, pipe, nout, errRead>>

\* a command built with exec.Command: nothing watches the context
DeadlineNoKill ==
    /\ spc # "returned"
    /\ ~ctxDone
    /\ ctxDone' = TRUE
    /\ UNCHANGED <<spc, held, proc, sret, pipe, nout, errRead>>

\* the context's deadline elapses: exec.CommandContext kills the process
Deadline ==
    /\ spc # "returned"
    /\ ~ctxDone
    /\ ctxDone' = TRUE
    /\ proc' = IF proc = "running" THEN "killed" ELSE proc
    /\ UNCHANGED <<spc, held, sret, pipe, nout, errRead>>

\* the caller's deferred cancel() runs after StreamResponse has returned:
\* the context is done, and a subprocess still running is killed
Cancel ==
    /\ spc = "returned"
    /\ ~ctxDone
    /\ ctxDone' = TRUE
    /\ proc' = IF proc = "running" THEN "killed" ELSE proc
    /\ UNCHANGED <<spc, held, sret, pipe, nout, errRead>>

\* handleStderr: io.ReadAll(stderr) returns once the subprocess has ended;
\* what was read, if anything, goes to the transcript as "\nERROR: ...\n"
handleStderr ==
    /\ spc \in {"copy", "deliver", "wgwait"}
    /\ proc \in {"exited", "failed", "killed"}
    /\ ~errRead
    /\ errRead' = TRUE
    /\ logf' = IF errpipe > 0 THEN Fprintf(logf, Entry("ERROR", errpipe)) ELSE logf
    /\ UNCHANGED <<spc, held, proc, ctxDone, sret, pipe, nout>>
    /\ UNCHANGED <<cfg, cmd, sink, errpipe>>

\* io.Copy reads end of file on stdout: the subprocess has ended and the
\* pipe is drained
CopyEOF ==
    /\ spc = "copy"
    /\ proc \in {"exited", "failed", "killed"}
    /\ pipe = 0
    /\ spc' = "wgwait"
    /\ UNCHANGED <<held, proc, ctxDone, sret, pipe, nout, errRead>>

\* wg.Wait() returns, then cmd.Wait(): nil for exit status 0, else
\* "claude CLI failed: ..."
Wait ==
    /\ spc = "wgwait"
    /\ errRead
    /\ logf' = Fprintf(logf, Entry("newline", 0))
    /\ Return(Deferred(DeferredExec(held)), IF proc = "exited" THEN "nil" ELSE "wait")
    /\ UNCHANGED <<proc, ctxDone, pipe, nout, errRead>>
    /\ UNCHANGED <<cfg, cmd, sink, errpipe>>

(***************************************************************************)
(* ClaudeProvider.GetStatus                                                *)
(***************************************************************************)
\* what `cliPath --version` may meet: cliPath is a bare name looked up in
\* PATH or a path with a slash; the file is missing, present without the
\* execute permission, or present and executable; the interpreter or loader
\* the file names exists or not; the exit status; the combined output
VersionOutputs == {<<>>, <<"1">>, <<"1", "\n">>, <<" ", "1", " ">>}

ProbeInputs ==
    [path : {"bare", "slash"}, file : {"missing", "noexec", "present"},
     loader : {"ok", "missing"}, exit : {0, 1}, output : VersionOutputs]

NoErr == [type |-> "nil", notFound |-> FALSE, text |-> <<>>]

\* cmd.CombinedOutput() of exec.Command(cliPath, "--version"): the output
\* and the error, whose text is a sequence of phrases
CombinedOutput(in) ==
    IF in.file = "missing" \/ (in.file = "noexec" /\ in.path = "bare")
      THEN IF in.path = "bare"
             THEN [output |-> <<>>,
                   err |-> [type |-> "exec.Error", notFound |-> TRUE,
                            text |-> <<"exec:", "executable file not found in $PATH">>]]
             ELSE [output |-> <<>>,
                   err |-> [type |-> "exec.Error", notFound |-> FALSE,
                            text |-> <<"exec:", "stat", "no such file or directory">>]]
    ELSE IF in.file = "noexec"
      THEN [output |-> <<>>,
            err |-> [type |-> "exec.Error", notFound |-> FALSE,
                     text |-> <<"exec:", "permission denied">>]]
    ELSE IF in.loader = "missing"
      THEN [output |-> <<>>,
            err |-> [type |-> "fs.PathError", notFound |-> FALSE,
                     text |-> <<"fork/exec", "no such file or directory">>]]
    ELSE IF in.exit # 0
      THEN [output |-> in.output,
            err |-> [type |-> "exec.ExitError", notFound |-> FALSE,
                     text |-> <<"exit status 1">>]]
    ELSE [output |-> in.output, err |-> NoErr]

\* strings.Contains(err.Error(), phrase)
Contains(text, phrase) == \E i \in DOMAIN text : text[i] = phrase

\* strings.TrimSpace
RECURSIVE TrimLeft(_)
TrimLeft(str) ==
    IF str # <<>> /\ Space(Head(str)) THEN TrimLeft(Tail(str)) ELSE str

RECURSIVE TrimRight(_)
TrimRight(str) ==
    IF str # <<>> /\ Space(str[Len(str)])
      THEN TrimRight(SubSeq(str, 1, Len(str) - 1)) ELSE str

TrimSpace(str) == TrimRight(TrimLeft(str))

\* ClaudeProvider.GetStatus, as a function of what the probe meets
GetStatus(in) ==
    LET r == CombinedOutput(in) IN
    IF r.err # NoErr
      THEN IF r.err.type = "exec.Error" /\ r.err.notFound
             THEN [available |-> FALSE, status |-> "not_installed", version |-> <<>>,
                   details |-> "Claude CLI not found at"]
           ELSE IF Contains(r.err.text, "no such file or directory")
                     \/ Contains(r.err.text, "command not found")
             THEN [available |-> FALSE, status |-> "not_installed", version |-> <<>>,
                   details |-> "Claude CLI not found at"]
           ELSE [available |-> FALSE, status |-> "error", version |-> <<>>,
                 details |-> "Claude CLI error"]
      ELSE [available |-> TRUE, status |-> "ready", version |-> TrimSpace(r.output),
            details |-> "Claude CLI is available"]

NoProbe == [path |-> "bare", file |-> "missing", loader |-> "ok", exit |-> 0,
            output |-> <<>>]

NotCalled == [called |-> FALSE, available |-> FALSE, status |-> "", version |-> <<>>,
              details |-> ""]

InitProbeVars ==
    /\ probeIn = NoProbe
    /\ probeOut = NotCalled

\* a caller invokes GetStatus
CallGetStatus ==
    /\ ~probeOut.called
    /\ probeOut' = [called |-> TRUE] @@ GetStatus(probeIn)
    /\ UNCHANGED probeIn

(***************************************************************************)
(* The server: one hub loop, one handler and two pumps per client, one     *)
(* goroutine per accepted prompt; the registry holds what main registered. *)
(***************************************************************************)
InitProgVars ==
    /\ hs = [c \in Conns |-> "none"]
    /\ rpc = [c \in Conns |-> "off"]
    /\ wpc = [c \in Conns |-> "off"]
    /\ connClosed = [c \in Conns |-> FALSE]
    /\ chatID = [c \in Conns |-> 0]
    /\ provider = [c \in Conns |-> ""]
    /\ frames = NoFrames
    /\ nprompts = 0
    /\ prompts = [p \in PromptIds |-> NoPrompt]

\* main: RegisterDefaultProviders registers the Claude provider
DefaultProviders == [id \in {"claude"} |-> [obj |-> "claude1", id |-> "claude"]]

\* NewProviderRegistry, before any call
InitRegVars ==
    /\ redis = <<>>
    /\ now = 0
    /\ lastSweep = 0
    /\ sweeping = {}
    /\ pending = {}
    /\ probes = [id \in ProviderIds |-> 0]
    /\ regSeq = 0
    /\ regLast = NoCall
    /\ written = [id \in ProviderIds |-> [at |-> -1, status |-> NoStatus, n |-> 0]]

Init ==
    /\ InitHubVars
    /\ InitProbeVars
    /\ InitProgVars
    /\ InitRegVars
    /\ InitProcVars
    /\ InitIoVars
    /\ InitConnVars
    /\ redisOn = TRUE
    /\ providers = DefaultProviders
    /\ regOK = {DefaultProviders["claude"]}

Next ==
    \/ \E c \in Conns : WebSocketHandler(c)
    \/ \E c \in Conns, id \in PromptProviderIds, a \in BOOLEAN, ch \in ChatIds, ok \in BOOLEAN :
          ReadPumpPrompt(c, id, a, ch, ok)
    \/ \E c \in Conns : ReadPumpError(c)
    \/ \E c \in Conns : ReadPumpConnClosed(c)
    \/ \E c \in Conns : ReadPumpUnregister(c)
    \/ \E c \in Conns : WritePumpRecv(c)
    \/ \E c \in Conns : WritePumpClosed(c)
    \/ \E c \in Conns : WritePumpPingFail(c)
    \/ \E p \in PromptIds, b \in Chunks : websocketWriterWrite(p, b)
    \/ \E p \in PromptIds, r \in StreamResults : StreamReturn(p, r)
    \/ \E p \in PromptIds : sendStreamCompletion(p)
    \/ \E p \in PromptIds : sendError(p)
    \/ \E p \in PromptIds, ok \in BOOLEAN : AddMessageAssistant(p, ok)

Spec == Init /\ [][Next]_vars

\* Scheduling: the Go scheduler runs every runnable goroutine, the hub loop
\* receives from a channel that has a blocked sender, a read on a closed
\* transport fails, and StreamResponse returns by its context deadline.
\* Frames, chunks and transport failures are the environment's choice.
Fairness ==
    /\ \A c \in Conns : WF_vars(ReadPumpConnClosed(c))
    /\ \A c \in Conns : WF_vars(ReadPumpUnregister(c))
    /\ \A c \in Conns : WF_vars(WritePumpRecv(c))
    /\ \A c \in Conns : WF_vars(WritePumpClosed(c))
    /\ \A p \in PromptIds : WF_vars(\E r \in StreamResults : StreamReturn(p, r))
    /\ \A p \in PromptIds : WF_vars(sendStreamCompletion(p))
    /\ \A p \in PromptIds : WF_vars(sendError(p))

FairSpec == Spec /\ Fairness

\* the hub has just served a request of kind o for c
HubServes(o, c) == hubSeq' # hubSeq /\ hubLast'.op = o /\ hubLast'.conn = c

\* C33: the hub serves an unregister of a connection only after its
\* register; once the read pump has ended and its unregister is served the
\* connection is not in the live set and its mailbox is closed; and a read
\* pump that has left its loop leads to the connection leaving the live set
\* with its mailbox closed
C33_UnregisterFollowsRegisterAndRemoves ==
    /\ [][\A c \in Conns :
            HubServes("unregister", c) => hs[c] = "started" /\ hubLast'.present]_vars
    /\ [](\A c \in Conns : rpc[c] = "done" => clients[c] = 0 /\ closes[c] > 0)
    /\ \A c \in Conns : (rpc[c] = "unreg") ~> (clients[c] = 0 /\ closes[c] > 0)

C33_Witness ==
    \E c \in Conns : rpc[c] = "done" /\ clients[c] = 0 /\ closes[c] = 1 /\ hs[c] = "started"

(***************************************************************************)
(* The hub as a component: any request may arrive on its three channels.   *)
(* A Client is built with a fresh channel and is not handed to the hub     *)
(* again once that channel has been closed.                                *)
(***************************************************************************)
ReqRegister(c) ==
    /\ hubSeq < MaxReqs
    /\ closes[c] = 0
    /\ HubRegister(c)
    /\ UNCHANGED <<progVars, regVars, procVars, probeVars, ioVars, connVars>>

ReqUnregister(c) ==
    /\ hubSeq < MaxReqs
    /\ HubUnregister(c)
    /\ UNCHANGED <<progVars, regVars, procVars, probeVars, ioVars, connVars>>

ReqBroadcast(m) ==
    /\ hubSeq < MaxReqs
    /\ HubBroadcast(m)
    /\ UNCHANGED <<progVars, regVars, procVars, probeVars, ioVars, connVars>>

BroadcastStep(c) == HubBroadcastStep(c) /\ UNCHANGED <<progVars, regVars, procVars, probeVars, ioVars, connVars>>

BroadcastDone == HubBroadcastDone /\ UNCHANGED <<progVars, regVars, procVars, probeVars, ioVars, connVars>>

InitHub ==
    /\ InitHubVars
    /\ InitProbeVars
    /\ InitProcVars
    /\ InitIoVars
    /\ InitConnVars
    /\ hs = [c \in Conns |-> "started"]
    /\ rpc = [c \in Conns |-> "read"]
    /\ wpc = [c \in Conns |-> "run"]
    /\ connClosed = [c \in Conns |-> FALSE]
    /\ chatID = [c \in Conns |-> 0]
    /\ provider = [c \in Conns |-> ""]
    /\ frames = NoFrames
    /\ nprompts = 0
    /\ prompts = [p \in PromptIds |-> NoPrompt]
    /\ InitRegVars
    /\ redisOn = TRUE
    /\ providers = DefaultProviders
    /\ regOK = {DefaultProviders["claude"]}

NextHub ==
    \/ \E c \in Conns : ReqRegister(c)
    \/ \E c \in Conns : ReqUnregister(c)
    \/ \E m \in BroadcastMsgs : ReqBroadcast(m)
    \/ \E c \in Conns : BroadcastStep(c)
    \/ BroadcastDone
    \/ \E c \in Conns : WritePumpRecv(c)

SpecHub == InitHub /\ [][NextHub]_vars

\* Scheduling of the hub: the goroutine running Hub.Run takes its steps.
\* Nothing makes a write pump take envelopes out of a mailbox.
FairnessHub ==
    /\ WF_vars(\E c \in Conns : BroadcastStep(c))
    /\ WF_vars(BroadcastDone)

FairHub == SpecHub /\ FairnessHub

InitReg ==
    /\ InitHubVars
    /\ InitProbeVars
    /\ InitProgVars
    /\ InitProcVars
    /\ InitIoVars
    /\ InitConnVars
    /\ InitRegVars
    /\ \/ redisOn = TRUE
       \/ redisOn = FALSE
    /\ \/ providers = DefaultProviders /\ regOK = {DefaultProviders["claude"]}
       \/ providers = <<>> /\ regOK = {}

NextReg ==
    \/ \E obj \in ProviderObjs : Register(obj) /\ UNCHANGED <<hubVars, progVars, procVars, probeVars, ioVars, connVars>>
    \/ \E id \in CallIds : CallGet(id) /\ UNCHANGED <<hubVars, progVars, procVars, probeVars, ioVars, connVars>>
    \/ \E id \in CallIds, ok \in BOOLEAN, st \in ProbeResults :
          GetProviderStatus(id, ok, st) /\ UNCHANGED <<hubVars, progVars, procVars, probeVars, ioVars, connVars>>
    \/ \E w \in pending, ok \in BOOLEAN : CacheWrite(w, ok) /\ UNCHANGED <<hubVars, progVars, procVars, probeVars, ioVars, connVars>>
    \/ lastSweep < MaxSweeps * SweepInterval /\ SweepTick /\ UNCHANGED <<hubVars, progVars, procVars, probeVars, ioVars, connVars>>
    \/ \E g \in sweeping, st \in ProbeResults : SweepProbe(g, st) /\ UNCHANGED <<hubVars, progVars, procVars, probeVars, ioVars, connVars>>
    \/ Tick /\ UNCHANGED <<hubVars, progVars, procVars, probeVars, ioVars, connVars>>

SpecReg == InitReg /\ [][NextReg]_vars

\* the two operations that read the cache, on a registry with or without a
\* Redis client and with or without its provider, while write-backs run
\* and time passes
NextRead ==
    \/ \E id \in CallIds, ok \in BOOLEAN, st \in ProbeResults :
          GetProviderStatus(id, ok, st) /\ UNCHANGED <<hubVars, progVars, procVars, probeVars, ioVars, connVars>>
    \/ \E o \in RangeOrders, reads \in [DOMAIN providers -> BOOLEAN],
          sts \in [DOMAIN providers -> ProbeResults] :
          List(o, reads, sts) /\ UNCHANGED <<hubVars, progVars, procVars, probeVars, ioVars, connVars>>
    \/ \E w \in pending, ok \in BOOLEAN : CacheWrite(w, ok) /\ UNCHANGED <<hubVars, progVars, procVars, probeVars, ioVars, connVars>>
    \/ Tick /\ UNCHANGED <<hubVars, progVars, procVars, probeVars, ioVars, connVars>>

SpecRead == InitReg /\ [][NextRead]_vars

\* the cache gives nothing for id: no client, or the GET fails or its value
\* does not decode (ok false), or the key is missing or expired
CacheGivesNothing(id, ok) == ~redisOn \/ ~ok \/ ~RedisHas(id)

\* the write-back goroutine the step has started for id
Started(id) == {w \in pending' \ pending : w.id = id}

\* the status fields of a models.Provider
EntryFields(e) == Status(e.available, e.status, e.version, e.details)

\* C38: a GetProviderStatus call for a registered provider never returns an
\* error, and when the cache gives nothing it probes once and returns the
\* probe's answer; for an id that is not registered it returns an error
\* without probing or starting a cache write; a List call returns no error
\* and, for every provider for which the cache gives nothing, an entry that
\* carries the answer of one probe of that provider
C38_CacheTroubleIsAMiss ==
    [][ /\ (regSeq' # regSeq /\ regLast'.op = "status") =>
              LET id == regLast'.arg IN
              IF id \in DOMAIN providers
                THEN /\ ~regLast'.err
                     /\ CacheGivesNothing(id, regLast'.readOK) =>
                            /\ regLast'.probed
                            /\ probes'[id] = probes[id] + 1
                            /\ \E w \in Started(id) : w.status = regLast'.status
                ELSE /\ regLast'.err
                     /\ ~regLast'.probed
                     /\ UNCHANGED <<probes, pending, redis>>
        /\ (regSeq' # regSeq /\ regLast'.op = "list") =>
              /\ ~regLast'.err
              /\ Len(regLast'.list) = Cardinality(DOMAIN providers)
              /\ \A id \in DOMAIN providers :
                    CacheGivesNothing(id, regLast'.reads[id]) =>
                        /\ probes'[id] = probes[id] + 1
                        /\ \E i \in DOMAIN regLast'.list, w \in Started(id) :
                              /\ regLast'.list[i].id = id
                              /\ EntryFields(regLast'.list[i]) = w.status ]_vars

\* a GetProviderStatus call whose GET failed while the key was in the cache
\* has probed, and its write-back has not run yet
C38_Witness ==
    /\ regLast.op = "status"
    /\ ~regLast.err
    /\ regLast.probed
    /\ ~regLast.readOK
    /\ RedisHas(regLast.arg)
    /\ written[regLast.arg].n < probes[regLast.arg]
    /\ \E w \in pending : w.id = regLast.arg /\ w.n = probes[regLast.arg]

\* C34: for each provider the cache writes are applied in the order of the
\* probes: a completed write never replaces the status of a later probe by
\* the status of an earlier one
C34_CacheWritesFollowProbeOrder ==
    [][\A id \in DOMAIN written :
          written'[id] # written[id] => written'[id].n >= written[id].n]_vars

(***************************************************************************)
(* The status cache of a registry that holds two providers: List is called *)
(* at any time, on any cache content, while asynchronous cache writes land. *)
(***************************************************************************)
\* a registry with the Claude provider and the Gemini provider that
\* RegisterDefaultProviders foresees
TwoProviders ==
    [id \in {"claude", "gemini"} |->
        IF id = "claude" THEN [obj |-> "claude1", id |-> "claude"]
                         ELSE [obj |-> "gemini1", id |-> "gemini"]]

\* what the cache may hold for one provider when List is called: nothing,
\* or the status a probe answered, written at some time up to now by an
\* earlier write-back or sweep
CacheEntries ==
    {[at |-> t, status |-> st, n |-> 0] : t \in 0..now, st \in ProbeResults}
        \cup {[at |-> -1, status |-> NoStatus, n |-> 0]}

\* Redis after the completed writes w (per provider id)
RedisAfter(w) ==
    [id \in {i \in DOMAIN w : w[i].at >= 0} |->
        [data |-> Marshal(w[id].status), exp |-> w[id].at + CacheTTL]]

\* the two-provider registry at time MaxTime, with any cache content that
\* earlier write-backs can have left: entries of every age from 0 to MaxTime
InitCache ==
    /\ InitHubVars
    /\ InitProbeVars
    /\ InitProgVars
    /\ InitProcVars
    /\ InitIoVars
    /\ InitConnVars
    /\ now = MaxTime
    /\ written \in [DOMAIN TwoProviders -> CacheEntries]
    /\ redis = RedisAfter(written)
    /\ lastSweep = 0
    /\ sweeping = {}
    /\ pending = {}
    /\ probes = [id \in DOMAIN TwoProviders |-> 0]
    /\ regSeq = 0
    /\ regLast = NoCall
    /\ redisOn = TRUE
    /\ providers = TwoProviders
    /\ regOK = {TwoProviders[id] : id \in DOMAIN TwoProviders}

\* the two-provider registry just built
InitSweep ==
    /\ InitHubVars
    /\ InitProbeVars
    /\ InitProgVars
    /\ InitProcVars
    /\ InitIoVars
    /\ InitConnVars
    /\ redis = <<>>
    /\ now = 0
    /\ lastSweep = 0
    /\ sweeping = {}
    /\ pending = {}
    /\ probes = [id \in DOMAIN TwoProviders |-> 0]
    /\ regSeq = 0
    /\ regLast = NoCall
    /\ written = [id \in DOMAIN TwoProviders |-> [at |-> -1, status |-> NoStatus, n |-> 0]]
    /\ redisOn = TRUE
    /\ providers = TwoProviders
    /\ regOK = {TwoProviders[id] : id \in DOMAIN TwoProviders}

NextCache ==
    \/ \E o \in RangeOrders, reads \in [DOMAIN providers -> BOOLEAN],
          sts \in [DOMAIN providers -> ProbeResults] :
          regSeq < MaxLists /\ List(o, reads, sts) /\ UNCHANGED <<hubVars, progVars, procVars, probeVars, ioVars, connVars>>
    \/ \E w \in pending, ok \in BOOLEAN : CacheWrite(w, ok) /\ UNCHANGED <<hubVars, progVars, procVars, probeVars, ioVars, connVars>>

SpecCache == InitCache /\ [][NextCache]_vars

\* the background sweep alone: ticks, probes, cache writes and the clock
NextSweep ==
    \/ SweepTick /\ UNCHANGED <<hubVars, progVars, procVars, probeVars, ioVars, connVars>>
    \/ \E g \in sweeping, st \in ProbeResults : SweepProbe(g, st) /\ UNCHANGED <<hubVars, progVars, procVars, probeVars, ioVars, connVars>>
    \/ \E w \in pending, ok \in BOOLEAN : CacheWrite(w, ok) /\ UNCHANGED <<hubVars, progVars, procVars, probeVars, ioVars, connVars>>
    \/ Tick /\ UNCHANGED <<hubVars, progVars, procVars, probeVars, ioVars, connVars>>

SpecSweep == InitSweep /\ [][NextSweep]_vars

\* the provider whose GetStatus never returns
Hanging == "gemini"

\* the goroutines updateAllProviderStatus can start, and the probe numbers
SweepTimes == {k * SweepInterval : k \in 1..(MaxTime \div SweepInterval)}
SweepGoroutines == {[id |-> id, tick |-> t] : id \in DOMAIN TwoProviders, t \in SweepTimes}
ProbeNumbers == 1..(MaxTime \div SweepInterval)

\* Scheduling of the sweep: time passes, the ticker's channel is served,
\* every probe returns except those of the hanging provider, and every
\* cacheStatus call runs to the end of its SET, successful or not.
FairnessSweep ==
    /\ WF_vars(Tick /\ UNCHANGED <<hubVars, progVars, procVars, probeVars, ioVars, connVars>>)
    /\ WF_vars(SweepTick /\ UNCHANGED <<hubVars, progVars, procVars, probeVars, ioVars, connVars>>)
    /\ \A g \in SweepGoroutines :
          g.id # Hanging =>
             WF_vars(\E st \in ProbeResults : SweepProbe(g, st) /\ UNCHANGED <<hubVars, progVars, procVars, probeVars, ioVars, connVars>>)
    /\ \A id \in DOMAIN TwoProviders, n \in ProbeNumbers :
          WF_vars(\E w \in pending, ok \in BOOLEAN :
                     w.id = id /\ w.n = n /\ CacheWrite(w, ok) /\ UNCHANGED <<hubVars, progVars, procVars, probeVars, ioVars, connVars>>)

FairSweep == SpecSweep /\ FairnessSweep

(***************************************************************************)
(* One StreamResponse call: any setup step may fail, the subprocess may    *)
(* write, exit or run for ever, the writer may fail, the deadline may      *)
(* elapse at any point.                                                    *)
(***************************************************************************)
InitStream ==
    /\ InitHubVars
    /\ InitProbeVars
    /\ InitProgVars
    /\ InitRegVars
    /\ InitProcVars
    /\ cfg = NoCfg
    /\ cmd = NoCmd
    /\ logf \in LogStates
    /\ sink = <<>>
    /\ errpipe = 0
    /\ InitConnVars
    /\ redisOn = TRUE
    /\ providers = DefaultProviders
    /\ regOK = {DefaultProviders["claude"]}

NextStream ==
    \/ \E res \in CreateOutcomes : setupLogging(res) /\ UNCHANGED <<hubVars, progVars, regVars, probeVars, connVars>>
    \/ \E ok \in BOOLEAN : CreateTemp(ok) /\ UNCHANGED <<hubVars, progVars, regVars, probeVars, ioVars, connVars>>
    \/ \E ok \in BOOLEAN : WriteString(ok) /\ UNCHANGED <<hubVars, progVars, regVars, probeVars, ioVars, connVars>>
    \/ \E ok \in BOOLEAN : OpenStdin(ok) /\ UNCHANGED <<hubVars, progVars, regVars, probeVars, connVars>>
    \/ \E ok \in BOOLEAN : StdoutPipe(ok) /\ UNCHANGED <<hubVars, progVars, regVars, probeVars, ioVars, connVars>>
    \/ \E ok \in BOOLEAN : StderrPipe(ok) /\ UNCHANGED <<hubVars, progVars, regVars, probeVars, ioVars, connVars>>
    \/ \E ok \in BOOLEAN : Start(ok) /\ UNCHANGED <<hubVars, progVars, regVars, probeVars, ioVars, connVars>>
    \/ CopyRead /\ UNCHANGED <<hubVars, progVars, regVars, probeVars, ioVars, connVars>>
    \/ \E res \in WriteOutcomes : CopyChunk(res) /\ UNCHANGED <<hubVars, progVars, regVars, probeVars, connVars>>
    \/ ProcWrite /\ UNCHANGED <<hubVars, progVars, regVars, probeVars, ioVars, connVars>>
    \/ ProcWriteErr /\ UNCHANGED <<hubVars, progVars, regVars, probeVars, connVars>>
    \/ \E ok \in BOOLEAN : ProcExit(ok) /\ UNCHANGED <<hubVars, progVars, regVars, probeVars, ioVars, connVars>>
    \/ Deadline /\ UNCHANGED <<hubVars, progVars, regVars, probeVars, ioVars, connVars>>
    \/ Cancel /\ UNCHANGED <<hubVars, progVars, regVars, probeVars, ioVars, connVars>>
    \/ handleStderr /\ UNCHANGED <<hubVars, progVars, regVars, probeVars, connVars>>
    \/ CopyEOF /\ UNCHANGED <<hubVars, progVars, regVars, probeVars, ioVars, connVars>>
    \/ Wait /\ UNCHANGED <<hubVars, progVars, regVars, probeVars, connVars>>

SpecStream == InitStream /\ [][NextStream]_vars

\* Scheduling of the call: the goroutine running StreamResponse and the
\* handleStderr goroutine take their steps, a read on a pipe whose writer
\* has ended returns, and the context's deadline elapses. Nothing makes
\* the subprocess write or exit.
FairnessStream ==
    /\ WF_vars(\E res \in CreateOutcomes : setupLogging(res) /\ UNCHANGED <<hubVars, progVars, regVars, probeVars, connVars>>)
    /\ WF_vars(\E ok \in BOOLEAN : CreateTemp(ok) /\ UNCHANGED <<hubVars, progVars, regVars, probeVars, ioVars, connVars>>)
    /\ WF_vars(\E ok \in BOOLEAN : WriteString(ok) /\ UNCHANGED <<hubVars, progVars, regVars, probeVars, ioVars, connVars>>)
    /\ WF_vars(\E ok \in BOOLEAN : OpenStdin(ok) /\ UNCHANGED <<hubVars, progVars, regVars, probeVars, connVars>>)
    /\ WF_vars(\E ok \in BOOLEAN : StdoutPipe(ok) /\ UNCHANGED <<hubVars, progVars, regVars, probeVars, ioVars, connVars>>)
    /\ WF_vars(\E ok \in BOOLEAN : StderrPipe(ok) /\ UNCHANGED <<hubVars, progVars, regVars, probeVars, ioVars, connVars>>)
    /\ WF_vars(\E ok \in BOOLEAN : Start(ok) /\ UNCHANGED <<hubVars, progVars, regVars, probeVars, ioVars, connVars>>)
    /\ WF_vars(CopyRead /\ UNCHANGED <<hubVars, progVars, regVars, probeVars, ioVars, connVars>>)
    /\ WF_vars(\E res \in WriteOutcomes : CopyChunk(res) /\ UNCHANGED <<hubVars, progVars, regVars, probeVars, connVars>>)
    /\ WF_vars(Deadline /\ UNCHANGED <<hubVars, progVars, regVars, probeVars, ioVars, connVars>>)
    /\ WF_vars(Cancel /\ UNCHANGED <<hubVars, progVars, regVars, probeVars, ioVars, connVars>>)
    /\ WF_vars(handleStderr /\ UNCHANGED <<hubVars, progVars, regVars, probeVars, connVars>>)
    /\ WF_vars(CopyEOF /\ UNCHANGED <<hubVars, progVars, regVars, probeVars, ioVars, connVars>>)
    /\ WF_vars(Wait /\ UNCHANGED <<hubVars, progVars, regVars, probeVars, connVars>>)

FairStream == SpecStream /\ FairnessStream

(***************************************************************************)
(* The two entry points of the provider on one chat                        *)
(***************************************************************************)
SendOutcomes == {"ok", "mkdir", "open", "pipe", "start"}

\* ClaudeProvider.SendPrompt, the whole call: utils.CreateFile and the
\* deferred logFile.Close(), the command, the USER line, cmd.StdoutPipe(),
\* cmd.Start(), and the loggingReader it returns; res is the step that
\* fails, if any
SendPrompt(res) ==
    /\ spc = "call"
    /\ LET r == CreateFile(logf, IF res \in CreateOutcomes THEN res ELSE "ok")
       IN  IF r.err
             THEN /\ logf' = r.file
                  /\ Return(held, "log")
                  /\ UNCHANGED <<proc, cmd>>
             ELSE /\ logf' = Fprintf(r.file, Entry("USER", 0))
                  /\ cmd' = Command(cfg, cfg.prompt, SendPromptEnv)
                  /\ IF res = "ok"
                       THEN /\ proc' = "running"
                            /\ spc' = "reader"
                            /\ held' = held \cup {"stdoutPipe"}
                            /\ sret' = "nil"
                       ELSE /\ Return(held, res)
                            /\ UNCHANGED proc
    /\ UNCHANGED <<ctxDone, pipe, nout, errRead>>
    /\ UNCHANGED <<cfg, sink, errpipe>>

\* loggingReader.Read: what the subprocess wrote is handed to the caller
\* and appended to lr.buffer
loggingReaderRead ==
    /\ spc = "reader"
    /\ pipe > 0
    /\ pipe' = pipe - 1
    /\ nout' = nout + 1
    /\ UNCHANGED <<spc, held, proc, ctxDone, sret, errRead>>

\* fmt.Fprintf on an *os.File: appended when the file is open, an error
\* (which the callers drop) and no write once it has been closed
FprintfFile(open, f, e) == IF open THEN Fprintf(f, e) ELSE f

\* loggingReader.Close up to cmd.Wait(): a buffer that is not empty is
\* written to lr.logFile as "ASSISTANT: ...", the file SendPrompt opened
\* and has closed by its deferred logFile.Close()
loggingReaderClose ==
    /\ spc = "reader"
    /\ logf' = IF nout > 0
                 THEN FprintfFile("logFile" \in held, logf, Entry("ASSISTANT", nout))
                 ELSE logf
    /\ spc' = "readerWait"
    /\ UNCHANGED <<held, proc, ctxDone, sret, pipe, nout, errRead>>
    /\ UNCHANGED <<cfg, cmd, sink, errpipe>>

\* lr.cmd.Wait() returns once the subprocess has ended; Close returns nil
loggingReaderWait ==
    /\ spc = "readerWait"
    /\ proc \in {"exited", "failed", "killed"}
    /\ spc' = "closed"
    /\ held' = held \ {"stdoutPipe"}
    /\ UNCHANGED <<proc, ctxDone, sret, pipe, nout, errRead>>

NextLog ==
    \/ NextStream
    \/ \E res \in SendOutcomes :
          SendPrompt(res) /\ UNCHANGED <<hubVars, progVars, regVars, probeVars, connVars>>
    \/ loggingReaderRead /\ UNCHANGED <<hubVars, progVars, regVars, probeVars, ioVars, connVars>>
    \/ loggingReaderClose /\ UNCHANGED <<hubVars, progVars, regVars, probeVars, connVars>>
    \/ loggingReaderWait /\ UNCHANGED <<hubVars, progVars, regVars, probeVars, ioVars, connVars>>

SpecLog == InitStream /\ [][NextLog]_vars

\* a is an initial segment of b
IsPrefix(a, b) == Len(a) <= Len(b) /\ SubSeq(b, 1, Len(a)) = a

\* C29: whenever a call writes to the transcript, the file and its
\* directories exist and what the file held before is still there, in
\* front of what was added; a subprocess runs only when the file exists;
\* and a call that leaves the entry point without the file returns an
\* error and has spawned nothing
C29_TranscriptCreatedFirstAppendOnly ==
    [][/\ logf'.content # logf.content =>
            /\ logf'.dirs /\ logf'.exists
            /\ IsPrefix(logf.content, logf'.content)
       /\ proc' # "none" => logf'.dirs /\ logf'.exists
       /\ (spc = "call" /\ spc' # "call" /\ ~logf'.exists) =>
            /\ spc' = "returned"
            /\ sret' \notin {"none", "nil"}
            /\ proc' = "none"]_vars

\* the chunks of standard output among the entries es
IsOut(e) == e.kind = "out"

Outs(es) == SelectSeq(es, IsOut)

\* the first n chunks of standard output, in the order written
FirstOuts(n) == [i \in 1..n |-> Entry("out", i)]

C29_Witness ==
    /\ proc = "running"
    /\ Len(logf.content) >= 2
    /\ logf.content[1] = Entry("earlier", 0)
    /\ logf.content[2] = Entry("USER", 0)

(***************************************************************************)
(* Live connections: both clients are registered and their pumps run; a    *)
(* mailbox may still hold an envelope of an earlier prompt that the write  *)
(* pump has not written out.  A client sends its next prompt when the      *)
(* goroutine of the previous one has ended.                                *)
(***************************************************************************)
Earlier == Envelope("ai_response", 0, <<"h">>)

InitConn ==
    /\ clients = [c \in Conns |-> 1]
    /\ send \in [Conns -> {<<>>, <<Earlier>>}]
    /\ closes = [c \in Conns |-> 0]
    /\ crashed = "no"
    /\ hubpc = "select"
    /\ bmsg = "none"
    /\ todo = {}
    /\ hubSeq = 0
    /\ hubLast = NoReq
    /\ InitProbeVars
    /\ InitProcVars
    /\ InitIoVars
    /\ InitConnVars
    /\ InitRegVars
    /\ redisOn = TRUE
    /\ providers = DefaultProviders
    /\ regOK = {DefaultProviders["claude"]}
    /\ hs = [c \in Conns |-> "started"]
    /\ rpc = [c \in Conns |-> "read"]
    /\ wpc = [c \in Conns |-> "run"]
    /\ connClosed = [c \in Conns |-> FALSE]
    /\ chatID = [c \in Conns |-> 0]
    /\ provider = [c \in Conns |-> ""]
    /\ frames = NoFrames
    /\ nprompts = 0
    /\ prompts = [p \in PromptIds |-> NoPrompt]

\* no goroutine of an earlier prompt is still running
Idle == \A q \in PromptIds : prompts[q].pc \in {"none", "notfound", "unavailable", "done"}

NextConn ==
    \/ \E c \in Conns, id \in PromptProviderIds, a \in BOOLEAN, ch \in ChatIds, ok \in BOOLEAN :
          Idle /\ ReadPumpPrompt(c, id, a, ch, ok)
    \/ \E c \in Conns : WritePumpRecv(c)
    \/ \E p \in PromptIds, b \in Chunks : websocketWriterWrite(p, b)
    \/ \E p \in PromptIds, r \in StreamResults : StreamReturn(p, r)
    \/ \E p \in PromptIds : sendStreamCompletion(p)
    \/ \E p \in PromptIds : sendError(p)
    \/ \E p \in PromptIds, ok \in BOOLEAN : AddMessageAssistant(p, ok)

SpecConn == InitConn /\ [][NextConn]_vars

\* C32: an assistant message saved for a prompt has as content the contents
\* of the ai_response envelopes enqueued for the prompt, in order; it is
\* saved only when StreamResponse returned nil and there was output
C32_PersistedIsWhatWasSent ==
    \A p \in PromptIds :
        \A i \in DOMAIN prompts[p].calls :
            LET call == prompts[p].calls[i] IN
            (call.fn = "AddMessage" /\ call.ok /\ call.arg[1] = "assistant") =>
                /\ call.arg[2] = prompts[p].got
                /\ call.arg[2] # <<>>
                /\ prompts[p].err = "nil"

\* C24: whatever step reads or writes the chat id or the provider id bound
\* to a connection does so holding that connection's lock
C24_BoundIdsAccessedUnderLock == \A a \in access : a.locked

(***************************************************************************)
(* The two pumps of live connections over time: frames and pongs arrive,   *)
(* reads time out, writes fail.                                            *)
(***************************************************************************)
NextPumps ==
    \/ \E d \in Delays : PumpTick(d)
    \/ \E c \in Conns : ReadPumpMalformed(c)
    \/ \E c \in Conns : ReadPumpUnknown(c)
    \/ \E c \in Conns : PongHandler(c)
    \/ \E c \in Conns : ReadPumpTimeout(c)
    \/ \E c \in Conns : ReadPumpError(c)
    \/ \E c \in Conns : ReadPumpConnClosed(c)
    \/ \E c \in Conns : ReadPumpUnregister(c)
    \/ \E c \in Conns : WritePumpRecv(c)
    \/ \E c \in Conns : WritePumpWriteFail(c)
    \/ \E c \in Conns : WritePumpClosed(c)
    \/ \E c \in Conns : WritePumpPingFail(c)

SpecPumps == InitConn /\ [][NextPumps]_vars

\* the mailbox between the two pumps of a connection: the read pump
\* answers malformed frames with error envelopes until its read fails and
\* it unregisters, the write pump takes envelopes out and ends
NextDrain ==
    \/ \E c \in Conns : ReadPumpMalformed(c)
    \/ \E c \in Conns : ReadPumpError(c)
    \/ \E c \in Conns : ReadPumpConnClosed(c)
    \/ \E c \in Conns : ReadPumpUnregister(c)
    \/ \E c \in Conns : WritePumpRecv(c)
    \/ \E c \in Conns : WritePumpWriteFail(c)
    \/ \E c \in Conns : WritePumpClosed(c)
    \/ \E c \in Conns : WritePumpPingFail(c)

SpecDrain == InitConn /\ [][NextDrain]_vars

\* Scheduling of the write pump: its goroutine takes its steps, a receive
\* on a mailbox that holds an envelope or is closed returns. Frames and
\* transport failures are the environment's choice.
FairnessDrain ==
    /\ \A c \in Conns : WF_vars(WritePumpRecv(c) \/ WritePumpWriteFail(c))
    /\ \A c \in Conns : WF_vars(WritePumpClosed(c))

FairDrain == SpecDrain /\ FairnessDrain

\* C39: once Unregister has closed a mailbox, the envelopes in it leave it
\* only from the head, one at a time, taken by the write pump; the pump sees
\* the closure and sends the close frame only when the mailbox is empty, and
\* ends with it; and a closed mailbox leads to the pump having ended
C39_ClosedMailboxDrainedThenPumpEnds ==
    /\ [][\A c \in Conns :
            /\ closes[c] > 0 =>
                  \/ send'[c] = send[c]
                  \/ wpc[c] = "run" /\ send[c] # <<>> /\ send'[c] = Tail(send[c])
            /\ (transport'[c].closeFrame /\ ~transport[c].closeFrame) =>
                  closes[c] > 0 /\ send[c] = <<>> /\ wpc'[c] = "done"]_vars
    /\ \A c \in Conns : (closes[c] > 0) ~> (wpc[c] = "done")

\* C22: readPump renews the read deadline whenever it has read a frame, so
\* it fails with a timeout only when no frame has been read for the whole
\* read wait, and then goes on to unregister the client
C22_ReadsRenewTheDeadline ==
    [][\A c \in Conns :
         /\ frames'.n # frames.n /\ frames'.conn = c =>
               transport'[c].readDeadline = clock + ReadWait
         /\ (transport[c].readErr = "none" /\ transport'[c].readErr = "timeout") =>
               /\ clock - transport[c].lastRead >= ReadWait
               /\ rpc'[c] = "unreg"]_vars

\* C23: a write pump whose write to the transport has failed is no longer
\* running, and takes nothing more from the mailbox
C23_WriteFailureStopsThePump ==
    [][\A c \in Conns :
         /\ transport'[c].writeErr => wpc'[c] = "done"
         /\ transport[c].writeErr => Len(send'[c]) >= Len(send[c])]_vars

(***************************************************************************)
(* Live connections whose clients send session_status frames while the     *)
(* stream of a prompt is running.                                          *)
(***************************************************************************)
NextBind ==
    \/ \E c \in Conns, id \in PromptProviderIds, a \in BOOLEAN, ch \in ChatIds, ok \in BOOLEAN :
          ReadPumpPrompt(c, id, a, ch, ok)
    \/ \E c \in Conns, ch \in SessionChatIds, id \in SessionProviderIds :
          ReadPumpSessionStatus(c, ch, id)
    \/ \E c \in Conns : WritePumpRecv(c)
    \/ \E p \in PromptIds, b \in Chunks : websocketWriterWrite(p, b)
    \/ \E p \in PromptIds, r \in StreamResults : StreamReturn(p, r)
    \/ \E p \in PromptIds : sendStreamCompletion(p)
    \/ \E p \in PromptIds : sendError(p)
    \/ \E p \in PromptIds, ok \in BOOLEAN : AddMessageAssistant(p, ok)

SpecBind == InitConn /\ [][NextBind]_vars

\* C30: every ai_response and ai_response_end envelope enqueued for a prompt
\* carries the chat id and the provider id of that prompt's frame
C30_ResponsesCarryThePromptsIds ==
    \A p \in PromptIds :
        \A i \in 1..Len(prompts[p].log) :
            prompts[p].log[i].type \in {"ai_response", "ai_response_end"} =>
                /\ prompts[p].log[i].chat = prompts[p].chat
                /\ prompts[p].log[i].provider = prompts[p].provider

(***************************************************************************)
(* Live connections that send frames of every kind, prompts among them;    *)
(* the subprocess of a prompt writes nothing before StreamResponse returns.*)
(***************************************************************************)
NextFrames ==
    \/ \E c \in Conns, id \in PromptProviderIds, a \in BOOLEAN, ch \in ChatIds, ok \in BOOLEAN :
          ReadPumpPrompt(c, id, a, ch, ok)
    \/ \E c \in Conns, ch \in SessionChatIds, id \in SessionProviderIds :
          ReadPumpSessionStatus(c, ch, id)
    \/ \E c \in Conns : ReadPumpMalformed(c)
    \/ \E c \in Conns : ReadPumpUnknown(c)
    \/ \E c \in Conns : WritePumpRecv(c)
    \/ \E p \in PromptIds, r \in StreamResults : StreamReturn(p, r)
    \/ \E p \in PromptIds : sendStreamCompletion(p)
    \/ \E p \in PromptIds : sendError(p)

SpecFrames == InitConn /\ [][NextFrames]_vars

ReadsFrame(t) == frames'.n # frames.n /\ frames'.type = t

\* C21 as stated: after a session_status frame the bound chat id and the
\* bound provider id of the connection are those the frame carries
C21_SessionStatusBindsBoth ==
    [][ReadsFrame("session_status") =>
         /\ chatID'[frames'.conn] = frames'.chat
         /\ provider'[frames'.conn] = frames'.provider]_vars

\* C21 amended: a session_status frame binds its chat id when that is
\* positive and otherwise leaves the bound chat id alone, and it never
\* changes the bound provider id; a prompt frame binds both; no frame
\* changes what another connection has bound
C21_SessionStatusBindsPositiveChatOnly ==
    [][/\ ReadsFrame("session_status") =>
            /\ chatID'[frames'.conn] =
                 IF frames'.chat > 0 THEN frames'.chat ELSE chatID[frames'.conn]
            /\ provider' = provider
       /\ ReadsFrame("ai_prompt") =>
            /\ chatID'[frames'.conn] = frames'.chat
            /\ provider'[frames'.conn] = frames'.provider
       /\ \A c \in Conns \ {frames'.conn} :
            chatID'[c] = chatID[c] /\ provider'[c] = provider[c]]_vars

\* a session_status frame for another chat and provider has been read
\* after a prompt: the chat is rebound, the provider is not
C21_Witness ==
    /\ frames.type = "session_status"
    /\ frames.chat = 7
    /\ frames.provider = "ghost"
    /\ frames.conn # "none"
    /\ chatID[frames.conn] = 7
    /\ provider[frames.conn] = "claude"

(***************************************************************************)
(* One GetStatus call on any machine.                                      *)
(***************************************************************************)
InitStatus ==
    /\ InitHubVars
    /\ InitProgVars
    /\ InitRegVars
    /\ InitProcVars
    /\ InitIoVars
    /\ InitConnVars
    /\ redisOn = TRUE
    /\ providers = DefaultProviders
    /\ regOK = {DefaultProviders["claude"]}
    /\ probeIn \in ProbeInputs
    /\ probeOut = NotCalled

NextStatus ==
    CallGetStatus /\ UNCHANGED <<hubVars, progVars, regVars, procVars, ioVars, connVars>>

SpecStatus == InitStatus /\ [][NextStatus]_vars

\* the calls that build a command line
\* StreamResponse up to the end of setupClaudeCommand: the prompt is written
\* to the temporary file, which is opened as cmd.Stdin
StreamResponseCommand(prompt) ==
    /\ cfg' = [cfg EXCEPT !.prompt = prompt]
    /\ cmd' = Command(cfg', prompt, StreamEnv)
    /\ UNCHANGED <<logf, sink, errpipe>>

\* SendPrompt up to cmd.Stdin = bytes.NewReader([]byte(prompt))
SendPromptCommand(prompt) ==
    /\ cfg' = [cfg EXCEPT !.prompt = prompt]
    /\ cmd' = Command(cfg', prompt, SendPromptEnv)
    /\ UNCHANGED <<logf, sink, errpipe>>

\* NewClaudeProvider(cliPath, logDir, skipPermissions, extraArgs)
InitArgs ==
    /\ InitHubVars
    /\ InitProbeVars
    /\ InitProgVars
    /\ InitRegVars
    /\ InitProcVars
    /\ InitConnVars
    /\ redisOn = TRUE
    /\ providers = DefaultProviders
    /\ regOK = {DefaultProviders["claude"]}
    /\ cfg \in [skipPermissions : BOOLEAN, extraArgs : Strings(MaxLen),
                 prompt : {<<>>}, chat : ChatIds]
    /\ cmd = NoCmd
    /\ logf = NoLog
    /\ sink = <<>>
    /\ errpipe = 0

NextArgs ==
    \/ \E prompt \in Prompts :
          StreamResponseCommand(prompt)
            /\ UNCHANGED <<hubVars, progVars, regVars, procVars, probeVars, connVars>>
    \/ \E prompt \in Prompts :
          SendPromptCommand(prompt)
            /\ UNCHANGED <<hubVars, progVars, regVars, procVars, probeVars, connVars>>

SpecArgs == InitArgs /\ [][NextArgs]_vars

\* the characters of all the strings of a list, in order
RECURSIVE Joined(_)
Joined(strs) == IF strs = <<>> THEN <<>> ELSE Head(strs) \o Joined(Tail(strs))

NotSpace(ch) == ~Space(ch)

\* the positions of str at which a run of characters other than white space
\* begins
RunStarts(str) ==
    {i \in DOMAIN str : ~Space(str[i]) /\ (i = 1 \/ Space(str[i - 1]))}

HubData == <<clients, send, closes>>

\* a step in which the hub loop receives a request
HubReceives == hubSeq' = hubSeq + 1

\* C4: over any sequence of Register, Unregister and Broadcast requests a
\* client's channel is closed at most once; it is closed exactly in the step
\* that removes the client from h.clients; an Unregister naming a client
\* that is not in h.clients changes neither h.clients nor any channel.
C4_CloseOnceOnRemoval ==
    /\ [](\A c \in Conns : closes[c] <= 1)
    /\ [][ /\ \A c \in Conns :
               (clients[c] > 0 /\ clients'[c] = 0) <=> (closes'[c] = closes[c] + 1)
           /\ \A c \in Conns : closes'[c] \in {closes[c], closes[c] + 1}
           /\ \A c \in Conns :
               (HubReceives /\ hubLast'.op = "unregister" /\ hubLast'.conn = c
                  /\ clients[c] = 0) => UNCHANGED HubData ]_vars

\* an Unregister has been served for a client that an earlier request had
\* already removed and closed
C4_Witness ==
    /\ hubLast.op = "unregister"
    /\ ~hubLast.present
    /\ closes[hubLast.conn] = 1
    /\ clients[hubLast.conn] = 0

\* C5: h.clients never holds more than one entry for a client, also when
\* the client is registered again, and an Unregister that immediately
\* follows an Unregister of the same client changes nothing.
C5_NoDuplicatesIdempotentUnregister ==
    /\ [](\A c \in Conns : clients[c] \in {0, 1})
    /\ [][ \A c \in Conns :
             (HubReceives /\ hubLast.op = "unregister" /\ hubLast.conn = c
                /\ hubLast'.op = "unregister" /\ hubLast'.conn = c)
             => UNCHANGED HubData ]_vars

\* a Register has been served for a client that was already in h.clients
C5_Witness ==
    /\ hubLast.op = "register"
    /\ hubLast.present
    /\ clients[hubLast.conn] = 1

\* the step of the broadcast range that visits client c
Visits(c) == hubpc = "range" /\ c \in todo /\ c \notin todo'

\* C6: a broadcast visits every registered client; a visited client whose
\* channel has room gets the message appended and stays registered; one
\* whose channel is full is removed and its channel closed in that step;
\* no other client's membership or channel is touched by the visit, and
\* the hub loop always has a next step to take while it is in the range.
C6_BroadcastDropsOnlyFullClients ==
    /\ []((crashed = "no" /\ hubpc = "range")
            => ENABLED (HubBroadcastDone \/ \E c \in Conns : HubBroadcastStep(c)))
    /\ [][ /\ (hubpc = "select" /\ hubpc' = "range")
                => todo' = {c \in Conns : clients[c] > 0}
           /\ \A c \in Conns : Visits(c) =>
                /\ crashed' = "no"
                /\ Len(send[c]) < SendCap =>
                      /\ send'[c] = Append(send[c], Envelope("broadcast", 0, bmsg))
                      /\ clients'[c] = clients[c]
                      /\ closes'[c] = 0
                /\ Len(send[c]) >= SendCap =>
                      /\ clients'[c] = 0
                      /\ closes'[c] = 1
                      /\ send'[c] = send[c]
                /\ \A d \in Conns \ {c} :
                      /\ clients'[d] = clients[d]
                      /\ send'[d] = send[d]
                      /\ closes'[d] = closes[d] ]_vars

\* a broadcast has dropped a full client and delivered to another one, and
\* the hub loop is back at its select
C6_Witness ==
    /\ hubpc = "select"
    /\ hubLast.op = "broadcast"
    /\ \E c \in hubLast.dropped, d \in Conns \ hubLast.dropped :
          /\ clients[c] = 0 /\ closes[c] = 1
          /\ clients[d] = 1 /\ closes[d] = 0
          /\ Len(send[d]) > 0
          /\ send[d][Len(send[d])].type = "broadcast"

(***************************************************************************)
(* Properties of the prompt handler and the pumps                          *)
(***************************************************************************)
\* the prompt was accepted: provider found and available, stream started
Accepted(p) == prompts[p].streams = 1

\* the prompt's goroutine has run to its end
Finished(p) == prompts[p].pc = "done"

\* C1: an accepted prompt never has more than one ai_response_end enqueued
\* to its client's channel, and once its goroutine has ended exactly one
\* has been enqueued, whatever StreamResponse returned.
C1_ExactlyOneTerminal ==
    \A p \in PromptIds :
        Accepted(p) =>
            /\ prompts[p].ends <= 1
            /\ Finished(p) => prompts[p].ends = 1

\* C2: once handleAIPrompt has returned for a prompt naming an unregistered
\* provider, one error envelope and one ai_response_end have been enqueued
\* to the client and StreamResponse was not called.
C2_UnknownProviderErrorAndEnd ==
    \A p \in PromptIds :
        prompts[p].pc = "notfound" =>
            /\ prompts[p].errors = 1
            /\ prompts[p].ends = 1
            /\ prompts[p].streams = 0

\* C3: no delivery attempt (websocketWriter.Write, sendError,
\* sendStreamCompletion) executes a send on a channel the hub has closed.
C3_NoSendOnClosedMailbox == crashed # "send on closed channel"

\* C7: a client's channel is never closed twice, and a client whose
\* writePump has returned while it is still in h.clients is eventually
\* removed from h.clients with its channel closed.
C7_WritePumpExitTearsDown ==
    /\ [](\A c \in Conns : closes[c] <= 1)
    /\ \A c \in Conns :
          (wpc[c] = "done" /\ clients[c] > 0) ~> (clients[c] = 0 /\ closes[c] = 1)

(***************************************************************************)
(* Properties of the registry and its status cache                         *)
(***************************************************************************)
\* a step in which the registry's API is called
RegistryCalled == regSeq' = regSeq + 1

\* C8: a Register of a provider whose id is already registered returns an
\* error and leaves the registry as it was: Get of that id returns the same
\* provider as before and the number of providers is unchanged.
C8_DuplicateRegisterRejected ==
    [][ \A obj \in ProviderObjs :
          (RegistryCalled /\ regLast'.op = "register" /\ regLast'.arg = obj.obj
             /\ GetID(obj) \in DOMAIN providers)
          => /\ regLast'.err
             /\ Get(GetID(obj))' = Get(GetID(obj))
             /\ Cardinality(DOMAIN providers') = Cardinality(DOMAIN providers)
             /\ providers' = providers
             /\ regOK' = regOK ]_vars

\* a Register was refused for an object other than the one registered
C8_Witness ==
    /\ regLast.op = "register"
    /\ regLast.err
    /\ "claude" \in DOMAIN providers
    /\ providers["claude"].obj # regLast.arg

\* C9: Get(id) returns the one provider whose Register under id succeeded,
\* and returns an error and no provider exactly when no Register under id
\* succeeded.
C9_GetReturnsRegistered ==
    \A id \in CallIds :
        LET ok == {o \in regOK : GetID(o) = id} IN
        /\ Cardinality(ok) <= 1
        /\ Get(id).err <=> ok = {}
        /\ ~Get(id).err => Get(id).provider \in ok
        /\ Get(id).err => Get(id).provider = NoProvider

\* a Get has returned a provider that a Register call had stored, and
\* would fail for another id
C9_Witness ==
    /\ regLast.op = "get"
    /\ ~regLast.err
    /\ regLast.obj = "claude2"
    /\ Get("ghost").err

\* the registered provider's status was last written to the cache less than
\* the TTL ago
Fresh(id) == written[id].at >= 0 /\ now - written[id].at < CacheTTL

\* a step that calls GetProviderStatus for the registered id
StatusCalled(id) ==
    RegistryCalled /\ regLast'.op = "status" /\ regLast'.arg = id /\ ~regLast'.err

\* C10 as claimed: a GetProviderStatus(id) call that follows a
\* GetProviderStatus(id) call made less than the TTL before returns without
\* a probe, and a call made when the cached entry has expired probes.
C10_SecondCallNeverProbes ==
    [][ \A id \in ProviderIds : StatusCalled(id) =>
          /\ (regLast.op = "status" /\ regLast.arg = id /\ ~regLast.err
                 /\ now - regLast.at < CacheTTL)
               => probes'[id] = probes[id]
          /\ (written[id].at >= 0 /\ ~Fresh(id))
               => probes'[id] = probes[id] + 1 ]_vars

\* C10 as amended: GetProviderStatus(id) returns without a probe exactly
\* when its cache read succeeds and a write of the id's status to the cache
\* completed less than the TTL before, and then it returns the status that
\* was written; in every other case (no write completed yet, entry older
\* than the TTL, no Redis client, failed read) it makes exactly one probe.
C10_CachedEntryDecidesProbe ==
    [][ \A id \in ProviderIds : StatusCalled(id) =>
          /\ (Fresh(id) /\ regLast'.readOK)
               => (probes'[id] = probes[id] /\ regLast'.status = written[id].status)
          /\ ~(Fresh(id) /\ regLast'.readOK)
               => probes'[id] = probes[id] + 1 ]_vars

\* a second GetProviderStatus call, made within the TTL of the write-back
\* of an earlier probe, has returned the cached status without probing
C10_Witness ==
    /\ regLast.op = "status"
    /\ ~regLast.err
    /\ ~regLast.probed
    /\ regSeq >= 2
    /\ Fresh(regLast.arg)
    /\ regLast.status = written[regLast.arg].status

(***************************************************************************)
(* Properties of List and of the background sweep                          *)
(***************************************************************************)
\* the ProviderStatus carried by an entry of the slice List returns
EntryStatus(e) == Status(e.available, e.status, e.version, e.details)

\* a step that calls List
ListCalled == RegistryCalled /\ regLast'.op = "list"

\* C11: the slice List returns has exactly one entry per registered
\* provider; an entry carries the status last written to the cache when the
\* cache read returns an unexpired entry for its id, and then no probe is
\* made; otherwise it carries the answer of one probe made during the call,
\* and that answer is handed to one cacheStatus goroutine; the call itself
\* writes nothing to Redis, so it returns before any write-back has landed.
C11_ListCacheFirstAsyncWriteBack ==
    [][ ListCalled =>
          LET l == regLast'.list IN
          /\ Len(l) = Cardinality(DOMAIN providers)
          /\ \A id \in DOMAIN providers :
                Cardinality({i \in DOMAIN l : l[i].id = id}) = 1
          /\ \A i \in DOMAIN l :
                LET id == l[i].id
                    started == {w \in pending' \ pending : w.id = id}
                IN  IF redisOn /\ RedisHas(id) /\ regLast'.reads[id]
                      THEN /\ EntryStatus(l[i]) = written[id].status
                           /\ probes'[id] = probes[id]
                           /\ started = {}
                      ELSE /\ probes'[id] = probes[id] + 1
                           /\ Cardinality(started) = 1
                           /\ \A w \in started : w.status = EntryStatus(l[i])
          /\ redis' = redis
          /\ pending \subseteq pending' ]_vars

\* List has returned one entry from the cache and one from a probe whose
\* write-back is still in flight
C11_Witness ==
    /\ regLast.op = "list"
    /\ Len(regLast.list) = 2
    /\ \E i, j \in DOMAIN regLast.list :
          LET a == regLast.list[i].id
              b == regLast.list[j].id
          IN  /\ a # b
              /\ probes[a] = 0
              /\ RedisHas(a)
              /\ EntryStatus(regLast.list[i]) = written[a].status
              /\ probes[b] = 1
              /\ ~RedisHas(b)
              /\ \E w \in pending : w.id = b /\ w.status = EntryStatus(regLast.list[j])

\* a step in which backgroundStatusUpdater serves a tick
SweepStarts == lastSweep' # lastSweep

\* C12: a tick starts one probe goroutine for every provider registered at
\* that tick; a probe that returns hands its answer to one cacheStatus call
\* for its own provider, and a cacheStatus SET replaces that provider's
\* entry only; while the probes of the hanging provider never return, every
\* other probe of the same sweep still returns, every cacheStatus call still
\* runs, and every later tick is still served (a goroutine or a call that
\* has ended never comes back, so each of the three is stated as: again and
\* again none is outstanding).
C12_SweepRefreshesIndependently ==
    /\ [][ /\ SweepStarts =>
                sweeping' = sweeping \cup
                    {[id |-> id, tick |-> lastSweep'] : id \in DOMAIN providers}
           /\ \A g \in sweeping \ sweeping' :
                /\ probes' = [probes EXCEPT ![g.id] = @ + 1]
                /\ \E w \in pending' \ pending :
                      /\ w.id = g.id
                      /\ pending' = pending \cup {w}
           /\ \A w \in pending \ pending' :
                \/ redis' = redis
                \/ /\ redis'[w.id] = [data |-> Marshal(w.status), exp |-> now + CacheTTL]
                   /\ \A id \in DOMAIN redis \ {w.id} :
                         id \in DOMAIN redis' /\ redis'[id] = redis[id] ]_vars
    /\ []<>(\A g \in sweeping : g.id = Hanging)
    /\ []<>(pending = {})
    /\ []<>(now - lastSweep < SweepInterval)

\* the hanging provider's probe of the first sweep has still not returned,
\* the other provider's entry was refreshed by that sweep, and a later
\* sweep has started
C12_Witness ==
    /\ [id |-> Hanging, tick |-> SweepInterval] \in sweeping
    /\ \E id \in DOMAIN providers \ {Hanging} :
          /\ written[id].at >= SweepInterval
          /\ RedisHas(id)
          /\ probes[id] >= 1
    /\ lastSweep >= 2 * SweepInterval
    /\ probes[Hanging] = 0

C18_ReturnReleasesEverything ==
    spc = "returned" => /\ held = {}
                        /\ ctxDone => proc # "running"

\* the position of the last entry of kind k in the transcript, 0 if none
RECURSIVE LastOf(_, _)
LastOf(content, k) ==
    IF content = <<>> THEN 0
    ELSE IF content[Len(content)].kind = k THEN Len(content)
    ELSE LastOf(SubSeq(content, 1, Len(content) - 1), k)

\* C36: when the reader SendPrompt returned has been read to the end (the
\* subprocess has ended and nothing it wrote is left unread) with a response
\* that is not empty, and closed, the transcript holds the ASSISTANT line
\* of that response after the USER line of the prompt
C36_ResponseLoggedAtClose ==
    (spc = "closed" /\ pipe = 0 /\ nout > 0) =>
        /\ LastOf(logf.content, "USER") > 0
        /\ LastOf(logf.content, "ASSISTANT") > LastOf(logf.content, "USER")
        /\ logf.content[Len(logf.content)] = Entry("ASSISTANT", nout)

\* cmd.Wait() has been called: handleCommandExecution calls it on one path
\* only, the one whose result is nil or "claude CLI failed"
Reaped == spc = "returned" /\ sret \in {"nil", "wait"}

\* C35: when StreamResponse has returned and the subprocess had been
\* started, the subprocess has been waited for, on the copy-failure path too
C35_StartedSubprocessIsReaped ==
    (spc = "returned" /\ proc # "none") => Reaped

(***************************************************************************)
(* Properties of GetStatus                                                 *)
(***************************************************************************)
\* no executable is found for cliPath
ExecutableMissing(in) ==
    in.file = "missing" \/ (in.file = "noexec" /\ in.path = "bare")

\* C15: GetStatus answers not_installed exactly when no executable is found,
\* ready exactly when the version probe succeeded, error exactly when an
\* executable is there and the probe failed; Available holds if and only
\* if the state is ready.
C15_StatusClassification ==
    probeOut.called =>
        /\ probeOut.status \in {"not_installed", "error", "ready"}
        /\ probeOut.status = "not_installed" <=> ExecutableMissing(probeIn)
        /\ probeOut.status = "ready" <=> CombinedOutput(probeIn).err = NoErr
        /\ probeOut.status = "error" <=>
              (~ExecutableMissing(probeIn) /\ CombinedOutput(probeIn).err # NoErr)
        /\ probeOut.available <=> probeOut.status = "ready"

(***************************************************************************)
(* Properties of the envelopes of one prompt                               *)
(***************************************************************************)
\* the goroutine of prompt p is past sendStreamCompletion after a stream
\* that returned nil
Succeeded(p) ==
    /\ prompts[p].streams = 1
    /\ prompts[p].err = "nil"
    /\ prompts[p].pc \in {"save", "done"}

\* C14: once the goroutine of a prompt whose StreamResponse returned nil has
\* sent the completion, the contents of the ai_response envelopes enqueued
\* for the prompt, in order, are the bytes handed to the writer, and the
\* envelopes are followed by exactly one ai_response_end with the prompt's
\* chat id.
C14_SuccessDeliversOutputThenEnd ==
    \A p \in PromptIds :
        Succeeded(p) =>
            LET log == prompts[p].log IN
            /\ prompts[p].got = prompts[p].buffer
            /\ Len(log) = prompts[p].responses + 1
            /\ \A i \in 1..(Len(log) - 1) : log[i].type = "ai_response"
            /\ log[Len(log)].type = "ai_response_end"
            /\ log[Len(log)].chat = prompts[p].chat

\* C20: in the envelopes enqueued for one prompt nothing follows an
\* ai_response_end: every ai_response comes before it and no ai_response or
\* error comes after it.
C20_TerminalIsLast ==
    \A p \in PromptIds :
        \A i \in 1..Len(prompts[p].log) :
            prompts[p].log[i].type = "ai_response_end" => i = Len(prompts[p].log)

(***************************************************************************)
(* Properties of the frames a live connection sends                        *)
(***************************************************************************)
\* the step is handleAIPrompt for prompt p finding its provider unavailable
UnavailableStep(p) ==
    /\ prompts[p].pc = "none"
    /\ prompts'[p].pc = "unavailable"

\* C16: handleAIPrompt for a registered provider that is not available
\* appends one error envelope to the channel of the client that sent the
\* prompt and to no other channel, does not call StreamResponse and does
\* not call AddMessage.
C16_UnavailableFailsFast ==
    [][\A p \in PromptIds :
         UnavailableStep(p) =>
            LET c == prompts'[p].conn IN
            /\ Len(send'[c]) = Len(send[c]) + 1
            /\ send'[c][Len(send'[c])].type = "error"
            /\ SubSeq(send'[c], 1, Len(send[c])) = send[c]
            /\ \A d \in Conns \ {c} : send'[d] = send[d]
            /\ prompts'[p].streams = 0
            /\ prompts'[p].userMsgs = 0
            /\ \A i \in DOMAIN prompts'[p].calls :
                  prompts'[p].calls[i].fn \notin {"StreamResponse", "AddMessage"}]_vars

\* the provider of prompt p was found and available
Streamed(p) == prompts[p].pc \notin {"none", "notfound", "unavailable"}

\* the indices of the calls of fn for role made for prompt p
CallsOf(p, fn, role) ==
    {i \in DOMAIN prompts[p].calls :
        /\ prompts[p].calls[i].fn = fn
        /\ fn = "AddMessage" => prompts[p].calls[i].arg[1] = role}

\* C17: for a prompt whose provider is found and available, AddMessage for
\* the user message is the first call and StreamResponse the second,
\* whether or not the save succeeded; AddMessage for the assistant message
\* is made only after StreamResponse returned nil and after
\* sendStreamCompletion, with the whole buffer, and is made whenever that
\* buffer is not empty; every goroutine that has ended has called
\* sendStreamCompletion once, whatever the AddMessage calls returned.
C17_SavesNeverStopTheStream ==
    \A p \in PromptIds :
        Streamed(p) =>
            LET q == prompts[p]
                n == Len(q.calls)
            IN  /\ CallsOf(p, "AddMessage", "user") = {1}
                /\ CallsOf(p, "StreamResponse", "") = {2}
                /\ q.streams = 1
                /\ CallsOf(p, "AddMessage", "assistant") \subseteq {n}
                /\ CallsOf(p, "AddMessage", "assistant") # {} =>
                      /\ q.err = "nil"
                      /\ q.pc = "done"
                      /\ q.calls[n].arg[2] = q.buffer
                      /\ CallsOf(p, "sendStreamCompletion", "") = {n - 1}
                /\ (q.pc = "done" /\ q.err = "nil" /\ q.buffer # <<>>) =>
                      CallsOf(p, "AddMessage", "assistant") = {n}
                /\ q.pc \in {"senderr", "save", "done"} =>
                      CallsOf(p, "sendStreamCompletion", "") = {3}

\* a prompt whose user message and assistant message both failed to be
\* saved, and whose stream ran to its end with the terminal envelope sent
C17_Witness ==
    \E p \in PromptIds :
        /\ prompts[p].pc = "done"
        /\ prompts[p].err = "nil"
        /\ Len(prompts[p].calls) = 4
        /\ ~prompts[p].calls[1].ok
        /\ ~prompts[p].calls[4].ok
        /\ prompts[p].responses = 1
        /\ prompts[p].ends = 1

\* the step is readPump of c skipping a frame that does not parse or whose
\* type is unknown
SkippedFrame(c) ==
    /\ frames' # frames
    /\ frames'.conn = c
    /\ frames'.type \in {"malformed", "unknown"}

\* C19: a frame that json.Unmarshal rejects or whose type is unknown leaves
\* the client registered, its channel open with the same content, its
\* chatID and provider as they were, and its readPump in the loop, ready
\* to read the next frame.
C19_BadFrameIsSkipped ==
    [][\A c \in Conns :
         SkippedFrame(c) =>
            /\ clients'[c] = clients[c]
            /\ clients'[c] > 0
            /\ closes'[c] = 0
            /\ send'[c] = send[c]
            /\ chatID'[c] = chatID[c]
            /\ provider'[c] = provider[c]
            /\ rpc'[c] = "read"
            /\ ~connClosed'[c]
            /\ crashed' = "no"]_vars

\* an unknown frame read on a connection that is bound to a chat and holds
\* an undelivered envelope, after which the pump is reading again
C19_Witness ==
    \E c \in Conns :
        /\ frames.n = 2
        /\ frames.conn = c
        /\ frames.type = "unknown"
        /\ chatID[c] = 42
        /\ Len(send[c]) = 1
        /\ rpc[c] = "read"

(***************************************************************************)
(* Properties of the locks                                                 *)
(***************************************************************************)
\* C25: every step that changes h.clients is a step of a branch of Hub.Run
\* that holds h.mu exclusively; no insert or delete is made by a branch
\* that holds it with RLock.
C25_LiveSetMutatedUnderExclusiveLock ==
    [][clients' # clients => hubLast'.lock = "Lock"]_vars

(***************************************************************************)
(* Properties of the status cache entries                                  *)
(***************************************************************************)
\* the value stored for id decodes to a status a probe can answer
WholeEntry(r, id) == id \in DOMAIN r => Unmarshal(r[id].data) \in ProbeResults

\* C26: the value stored in Redis for a provider always decodes to the
\* complete status of one probe; a step changes the value of a provider
\* only by completing a cacheStatus call for that provider, and the value
\* is then exactly the status that call was given; the statuses List
\* returns are complete statuses of one probe as well.
C26_CacheEntryIsOneProbe ==
    [][ /\ \A id \in DOMAIN providers :
             /\ WholeEntry(redis, id)
             /\ WholeEntry(redis', id)
             /\ (id \in DOMAIN redis' /\ (id \notin DOMAIN redis \/ redis'[id] # redis[id])) =>
                   \E w \in pending \ pending' :
                       /\ w.id = id
                       /\ Unmarshal(redis'[id].data) = w.status
        /\ DOMAIN redis \subseteq DOMAIN redis'
        /\ ListCalled =>
             \A i \in DOMAIN regLast'.list : EntryStatus(regLast'.list[i]) \in ProbeResults
      ]_vars

\* a write-back for claude has replaced an older entry by a different
\* status while the entry of gemini, written earlier, is still there
C26_Witness ==
    /\ pending = {}
    /\ probes["claude"] = 1
    /\ probes["gemini"] = 0
    /\ "claude" \in DOMAIN redis
    /\ "gemini" \in DOMAIN redis
    /\ written["claude"].at = now
    /\ Unmarshal(redis["claude"].data).status = "not_installed"
    /\ Unmarshal(redis["gemini"].data).status = "ready"
    /\ written["gemini"].at < now

====
